---------------------------- MODULE Spec2Model ----------------------------
(***************************************************************************)
(* A model of the scoring and aggregation pipeline of Prompt_Eval_Lab:     *)
(* the metric functions and the aggregator (src/src/metrics.py), the judge *)
(* adapter with its heuristic mock judge (src/src/evaluator.py) and the    *)
(* leaderboard builder (src/src/leaderboard.py) and the evaluation         *)
(* orchestrator (src/src/runner.py).                                       *)
(*                                                                         *)
(* Python floats are modelled as exact rationals [num, den] in lowest      *)
(* terms, so equal values have equal representations; binary rounding is   *)
(* not modelled.  Python strings that the code inspects character by       *)
(* character are sequences of one-character strings; dictionary keys are   *)
(* TLA+ strings.                                                           *)
(***************************************************************************)
EXTENDS Integers, Sequences, FiniteSets, TLC

VARIABLES
    runner,       \* the EvaluationRunner object: [api_key, model, client]
    files,        \* the file system: prompt files, dataset files, result store
    gen_log,      \* the requests sent to the generation model, with outcomes
    evaluator,    \* the LLMEvaluator object: [api_key, client]
    hashes,       \* the values of the process's salted str hash seen so far
    rng,          \* the state of the global `random` generator: [seed, pos]
    judge_log,    \* what the external judge did on each request sent to it
    observed,     \* the calls of the two mock functions made so far, with results
    call,         \* the invocation in progress: [fn, <arguments>]
    ret           \* what the invocation returned (NotReturned before it ran)

vars == <<runner, files, gen_log, evaluator, hashes, rng, judge_log, observed, call,
          ret>>

-----------------------------------------------------------------------------
(* Bounds of the model.                                                    *)

MaxCases == 3      \* score vectors handed to aggregate_scores
MaxResults == 3    \* result records in the result store
MaxLen == 4        \* characters of a text handed to a metric function
MaxWords == 2      \* words of a text handed to the judge
JitterSteps == 2   \* random() is one of 0, 1/JitterSteps, ..., 1
MaxLines == 3      \* lines of a judge response handed to _parse_scores
MaxCalls == 3      \* calls of the mock functions in one process

-----------------------------------------------------------------------------
(* Floats as exact rationals.                                              *)

Abs(x) == IF x < 0 THEN -x ELSE x

RECURSIVE Gcd(_, _)
Gcd(a, b) == IF b = 0 THEN a ELSE Gcd(b, a % b)

Rat(n, d) ==
    LET s == IF d < 0 THEN -1 ELSE 1
        g == Gcd(Abs(n), Abs(d))
    IN  [num |-> (s * n) \div g, den |-> (s * d) \div g]

Zero == Rat(0, 1)
One == Rat(1, 1)
Half == Rat(1, 2)

RAdd(a, b) == Rat(a.num * b.den + b.num * a.den, a.den * b.den)
RSub(a, b) == Rat(a.num * b.den - b.num * a.den, a.den * b.den)
RMul(a, b) == Rat(a.num * b.num, a.den * b.den)
RDivInt(a, k) == Rat(a.num, a.den * k)
RLe(a, b) == a.num * b.den <= b.num * a.den
RLt(a, b) == a.num * b.den < b.num * a.den
RDiv(a, b) == Rat(a.num * b.den, a.den * b.num)
RMin(a, b) == IF RLe(a, b) THEN a ELSE b
RMax(a, b) == IF RLe(a, b) THEN b ELSE a

NotReturned == [kind |-> "pending"]
Returned(v) == [kind |-> "return", value |-> v]
Raised(e) == [kind |-> "raise", error |-> e]

Range(s) == {s[i] : i \in 1..Len(s)}

RECURSIVE SeqsUpTo(_, _)
SeqsUpTo(S, n) ==
    IF n = 0 THEN {<<>>}
    ELSE LET shorter == SeqsUpTo(S, n - 1)
         IN  shorter \cup {Append(s, x) : s \in shorter, x \in S}

-----------------------------------------------------------------------------
(* MetricsCalculator.aggregate_scores                                      *)

RECURSIVE SumSeq(_)
SumSeq(values) ==
    IF values = <<>> THEN Zero ELSE RAdd(Head(values), SumSeq(Tail(values)))

RECURSIVE MinSeq(_)
MinSeq(values) ==
    IF Len(values) = 1 THEN values[1]
    ELSE RMin(Head(values), MinSeq(Tail(values)))

RECURSIVE MaxSeq(_)
MaxSeq(values) ==
    IF Len(values) = 1 THEN values[1]
    ELSE RMax(Head(values), MaxSeq(Tail(values)))

\* np.mean / np.min / np.max of a non-empty list
NpMean(values) == RDivInt(SumSeq(values), Len(values))
NpMin(values) == MinSeq(values)
NpMax(values) == MaxSeq(values)

\* s.get(key, default)
Get(s, key, default) == IF key \in DOMAIN s THEN s[key] ELSE default

RECURSIVE SelectPresent(_, _)
SelectPresent(scores_, key) ==
    IF scores_ = <<>> THEN <<>>
    ELSE LET rest == SelectPresent(Tail(scores_), key)
         IN  IF key \in DOMAIN Head(scores_)
             THEN <<Head(scores_)[key]>> \o rest
             ELSE rest

\* a slip: vectors lacking the key are skipped instead of counting as 0.0
ValuesOfSkipping(scores_, key) == SelectPresent(scores_, key)

\* values = [s.get(key, 0.0) for s in scores]
ValuesOf(scores_, key) == [i \in 1..Len(scores_) |-> Get(scores_[i], key, Zero)]

MetricKeys(scores_) == UNION {DOMAIN scores_[i] : i \in 1..Len(scores_)}

Stats == {"_mean", "_min", "_max"}

StatOf(stat, values) ==
    CASE stat = "_mean" -> NpMean(values)
      [] stat = "_min" -> NpMin(values)
      [] stat = "_max" -> NpMax(values)

aggregate_scores(scores_) ==
    IF scores_ = <<>> THEN <<>>
    ELSE LET metric_keys == MetricKeys(scores_)
             out == {key \o stat : key \in metric_keys, stat \in Stats}
             keyOf(o) == CHOOSE key \in metric_keys : \E stat \in Stats : o = key \o stat
             statOf(o) == CHOOSE stat \in Stats : o = keyOf(o) \o stat
         IN  [o \in out |-> StatOf(statOf(o), ValuesOf(scores_, keyOf(o)))]

-----------------------------------------------------------------------------
(* Invocations.  A specification of one function starts with the function   *)
(* about to be called on arguments drawn from a bounded set, and its only   *)
(* step runs the function.                                                 *)

NoObject == [kind |-> "none"]
NoFiles == [kind |-> "none"]
Unseeded == [seed |-> -1, pos |-> 0]

Invoke(c) ==
    /\ evaluator = NoObject
    /\ hashes = <<>>
    /\ rng = Unseeded
    /\ judge_log = <<>>
    /\ runner = NoObject
    /\ files = NoFiles
    /\ gen_log = <<>>
    /\ observed = <<>>
    /\ call = c
    /\ ret = NotReturned

Return(v) ==
    /\ ret' = Returned(v)
    /\ UNCHANGED <<runner, files, gen_log, evaluator, hashes, rng, judge_log,
                   observed, call>>

Metrics == {"accuracy", "f1_score"}
ScoreValues == {Rat(-1, 10), Half, Rat(4, 5)}
ScoreVectors == UNION {[S -> ScoreValues] : S \in SUBSET Metrics}
ScoreLists == SeqsUpTo(ScoreVectors, MaxCases)

InitAgg ==
    \E s \in ScoreLists : Invoke([fn |-> "aggregate_scores", scores |-> s])

AggregateScores ==
    /\ call.fn = "aggregate_scores"
    /\ ret = NotReturned
    /\ Return(aggregate_scores(call.scores))

NextAgg == AggregateScores

SpecAgg == InitAgg /\ [][NextAgg]_vars

\* What vector i contributes to metric m: its value, or 0.0 when it lacks m.
Contribution(scores_, i, m) ==
    IF m \in DOMAIN scores_[i] THEN scores_[i][m] ELSE Zero

RECURSIVE SumContributions(_, _, _)
SumContributions(scores_, n, m) ==
    IF n = 0 THEN Zero
    ELSE RAdd(SumContributions(scores_, n - 1, m), Contribution(scores_, n, m))

AggregateIsAsSpecified(scores_, agg) ==
    LET n == Len(scores_)
        ms == UNION {DOMAIN scores_[i] : i \in 1..n}
    IN  /\ DOMAIN agg = {m \o "_mean" : m \in ms} \cup {m \o "_min" : m \in ms}
                            \cup {m \o "_max" : m \in ms}
        /\ \A m \in ms :
            /\ RMul(agg[m \o "_mean"], Rat(n, 1)) = SumContributions(scores_, n, m)
            /\ \E i \in 1..n : agg[m \o "_min"] = Contribution(scores_, i, m)
            /\ \A i \in 1..n : RLe(agg[m \o "_min"], Contribution(scores_, i, m))
            /\ \E i \in 1..n : agg[m \o "_max"] = Contribution(scores_, i, m)
            /\ \A i \in 1..n : RLe(Contribution(scores_, i, m), agg[m \o "_max"])

-----------------------------------------------------------------------------
(* Leaderboard.get_leaderboard_data                                        *)

\* a slip: the weights of semantic similarity and accuracy exchanged
OverallScoreSwapped(agg_scores) ==
    RAdd(RAdd(RAdd(RMul(Get(agg_scores, "semantic_similarity_mean", Zero), Rat(4, 10)),
                   RMul(Get(agg_scores, "accuracy_mean", Zero), Rat(3, 10))),
              RMul(Get(agg_scores, "faithfulness_mean", Zero), Rat(2, 10))),
         RMul(Get(agg_scores, "completeness_mean", Zero), Rat(1, 10)))

OverallScore(agg_scores) ==
    RAdd(RAdd(RAdd(RMul(Get(agg_scores, "semantic_similarity_mean", Zero), Rat(3, 10)),
                   RMul(Get(agg_scores, "accuracy_mean", Zero), Rat(4, 10))),
              RMul(Get(agg_scores, "faithfulness_mean", Zero), Rat(2, 10))),
         RMul(Get(agg_scores, "completeness_mean", Zero), Rat(1, 10)))

\* the entry appended for one stored result (without its rank)
LeaderboardEntry(result) ==
    LET agg_scores == Get(result, "aggregate_scores", <<>>)
    IN  [prompt_name |-> result["prompt_name"],
         overall_score |-> OverallScore(agg_scores),
         semantic_similarity |-> Get(agg_scores, "semantic_similarity_mean", Zero),
         accuracy |-> Get(agg_scores, "accuracy_mean", Zero),
         faithfulness |-> Get(agg_scores, "faithfulness_mean", Zero),
         completeness |-> Get(agg_scores, "completeness_mean", Zero),
         f1_score |-> Get(agg_scores, "f1_score_mean", Zero),
         exact_match |-> Get(agg_scores, "exact_match_mean", Zero)]

InsertAt(seq, i, x) == SubSeq(seq, 1, i - 1) \o <<x>> \o SubSeq(seq, i, Len(seq))

\* a slip: an ascending sort read backwards, which turns ties around
InsertByScoreTiesFirst(sorted, x) ==
    LET before == {i \in 1..Len(sorted) : RLt(x.overall_score, sorted[i].overall_score)}
    IN  InsertAt(sorted, Cardinality(before) + 1, x)

\* list.sort(key=overall_score, reverse=True) is stable: an element goes
\* behind every element already placed whose score is at least its own
InsertByScore(sorted, x) ==
    LET before == {i \in 1..Len(sorted) : RLe(x.overall_score, sorted[i].overall_score)}
    IN  InsertAt(sorted, Cardinality(before) + 1, x)

RECURSIVE SortByScore(_)
SortByScore(entries) ==
    IF entries = <<>> THEN <<>>
    ELSE InsertByScore(SortByScore(SubSeq(entries, 1, Len(entries) - 1)),
                       entries[Len(entries)])

\* for idx, entry in enumerate(leaderboard, 1): entry["rank"] = idx
AddRank(leaderboard) ==
    [idx \in 1..Len(leaderboard) |->
        [k \in DOMAIN leaderboard[idx] \cup {"rank"} |->
            IF k = "rank" THEN idx ELSE leaderboard[idx][k]]]

get_leaderboard_data(results) ==
    AddRank(SortByScore([i \in 1..Len(results) |-> LeaderboardEntry(results[i])]))

PromptNames == <<"prompt_v1.txt", "prompt_v2.txt", "prompt_v3.txt",
                 "prompt_v4.txt", "prompt_v5.txt">>

MeanChoices ==
    [semantic_similarity_mean |-> {Rat(4, 5)},
     accuracy_mean |-> {Rat(9, 10)},
     faithfulness_mean |-> {Rat(7, 10)},
     completeness_mean |-> {Rat(3, 5)}]

\* the aggregate_scores of a stored result: any of the four ranked means may
\* be missing; the whole mapping may be missing too (NoAggregate)
AggregateMaps ==
    UNION {{f \in [S -> UNION {MeanChoices[k] : k \in S}] :
                \A k \in S : f[k] \in MeanChoices[k]} : S \in SUBSET DOMAIN MeanChoices}
    \cup {[accuracy_mean |-> Rat(3, 5)]}

NoAggregate == [missing |-> TRUE]

StoredResult(name, agg) ==
    IF agg = NoAggregate
    THEN [prompt_name |-> name, dataset_name |-> "qa_test.json"]
    ELSE [prompt_name |-> name, dataset_name |-> "qa_test.json",
          aggregate_scores |-> agg]

ResultStores ==
    {[i \in 1..Len(aggs) |-> StoredResult(PromptNames[i], aggs[i])] :
        aggs \in SeqsUpTo(AggregateMaps \cup {NoAggregate}, MaxResults)}

InitBoard ==
    \E rs \in ResultStores : Invoke([fn |-> "get_leaderboard_data", results |-> rs])

GetLeaderboardData ==
    /\ call.fn = "get_leaderboard_data"
    /\ ret = NotReturned
    /\ Return(get_leaderboard_data(call.results))

NextBoard == GetLeaderboardData

SpecBoard == InitBoard /\ [][NextBoard]_vars

\* a stored mean, or 0 when the mean or the whole aggregate mapping is missing
MeanOrZero(result, k) ==
    IF "aggregate_scores" \in DOMAIN result /\ k \in DOMAIN result["aggregate_scores"]
    THEN result["aggregate_scores"][k]
    ELSE Zero

WeightedOverall(result) ==
    Rat(3 * MeanOrZero(result, "semantic_similarity_mean").num
            * MeanOrZero(result, "accuracy_mean").den
            * MeanOrZero(result, "faithfulness_mean").den
            * MeanOrZero(result, "completeness_mean").den
        + 4 * MeanOrZero(result, "accuracy_mean").num
            * MeanOrZero(result, "semantic_similarity_mean").den
            * MeanOrZero(result, "faithfulness_mean").den
            * MeanOrZero(result, "completeness_mean").den
        + 2 * MeanOrZero(result, "faithfulness_mean").num
            * MeanOrZero(result, "semantic_similarity_mean").den
            * MeanOrZero(result, "accuracy_mean").den
            * MeanOrZero(result, "completeness_mean").den
        + 1 * MeanOrZero(result, "completeness_mean").num
            * MeanOrZero(result, "semantic_similarity_mean").den
            * MeanOrZero(result, "accuracy_mean").den
            * MeanOrZero(result, "faithfulness_mean").den,
        10 * MeanOrZero(result, "semantic_similarity_mean").den
           * MeanOrZero(result, "accuracy_mean").den
           * MeanOrZero(result, "faithfulness_mean").den
           * MeanOrZero(result, "completeness_mean").den)

EntriesOf(lb, result) ==
    {i \in 1..Len(lb) : lb[i].prompt_name = result["prompt_name"]}

HasExampleMeans(result) ==
    /\ "aggregate_scores" \in DOMAIN result
    /\ result["aggregate_scores"] =
          [semantic_similarity_mean |-> Rat(8, 10), accuracy_mean |-> Rat(9, 10),
           faithfulness_mean |-> Rat(7, 10), completeness_mean |-> Rat(6, 10)]

BoardReturned == call.fn = "get_leaderboard_data" /\ ret.kind = "return"

OverallIsWeightedSum ==
    BoardReturned =>
        \A k \in 1..Len(call.results) :
            /\ EntriesOf(ret.value, call.results[k]) # {}
            /\ \A i \in EntriesOf(ret.value, call.results[k]) :
                  ret.value[i].overall_score = WeightedOverall(call.results[k])

ExampleGives(v) ==
    BoardReturned =>
        \A k \in 1..Len(call.results) :
            HasExampleMeans(call.results[k]) =>
                \A i \in EntriesOf(ret.value, call.results[k]) :
                    ret.value[i].overall_score = v

\* C2 as stated: every entry's overall_score is 0.3*semantic_similarity_mean
\* + 0.4*accuracy_mean + 0.2*faithfulness_mean + 0.1*completeness_mean of its
\* result, a missing mean or mapping counting as 0, and the means 0.8, 0.9,
\* 0.7, 0.6 give 0.74.
C2_OverallScore_AsStated == OverallIsWeightedSum /\ ExampleGives(Rat(74, 100))

\* C2 as amended: the same weighted sum; the means 0.8, 0.9, 0.7, 0.6 give
\* 0.24 + 0.36 + 0.14 + 0.06 = 0.80.
C2_OverallScore == OverallIsWeightedSum /\ ExampleGives(Rat(80, 100))

\* The example means are ranked beside a result that stores no aggregate
\* mapping at all and one that lacks two of the means.
C2_Witness ==
    /\ BoardReturned
    /\ Len(call.results) = 3
    /\ HasExampleMeans(call.results[2])
    /\ "aggregate_scores" \notin DOMAIN call.results[1]
    /\ DOMAIN Get(call.results[3], "aggregate_scores", NoAggregate)
            = {"accuracy_mean", "completeness_mean"}
    /\ ret.value[1].prompt_name = PromptNames[2]
    /\ ret.value[1].overall_score = Rat(4, 5)
    /\ ret.value[2].overall_score = Rat(42, 100)
    /\ ret.value[3].overall_score = Zero

IndexOfPrompt(results, name) ==
    CHOOSE k \in 1..Len(results) : results[k]["prompt_name"] = name

\* C3: get_leaderboard_data returns exactly one entry per stored result, in
\* non-increasing order of overall_score, entries of equal overall_score in
\* their stored order, and the entry at position i carries rank i.
C3_StableRanking ==
    BoardReturned =>
        LET lb == ret.value
            rs == call.results
        IN  /\ Len(lb) = Len(rs)
            /\ \A k \in 1..Len(rs) : Cardinality(EntriesOf(lb, rs[k])) = 1
            /\ \A i \in 1..Len(lb) : lb[i].rank = i
            /\ \A i, j \in 1..Len(lb) :
                  i < j =>
                    /\ RLe(lb[j].overall_score, lb[i].overall_score)
                    /\ lb[i].overall_score = lb[j].overall_score =>
                          IndexOfPrompt(rs, lb[i].prompt_name)
                              < IndexOfPrompt(rs, lb[j].prompt_name)

\* Two results tie (by different means: 0.3*0.8 = 0.4*0.6) behind a better
\* one stored last: the best is ranked 1 and the tied keep their stored order.
C3_Witness ==
    /\ BoardReturned
    /\ Len(call.results) = 3
    /\ Get(call.results[1], "aggregate_scores", NoAggregate) = [semantic_similarity_mean |-> Rat(4, 5)]
    /\ Get(call.results[2], "aggregate_scores", NoAggregate) = [accuracy_mean |-> Rat(3, 5)]
    /\ Get(call.results[3], "aggregate_scores", NoAggregate) = [accuracy_mean |-> Rat(9, 10)]
    /\ ret.value[1].prompt_name = PromptNames[3] /\ ret.value[1].rank = 1
    /\ ret.value[2].prompt_name = PromptNames[1] /\ ret.value[2].rank = 2
    /\ ret.value[3].prompt_name = PromptNames[2] /\ ret.value[3].rank = 3
    /\ ret.value[2].overall_score = ret.value[3].overall_score

-----------------------------------------------------------------------------
(* Python str operations on texts (sequences of one-character strings).    *)

Whitespace == {" ", "\t", "\n", "\r"}

Uppers == <<"A", "B", "C", "D", "E", "F", "G", "H", "I", "J", "K", "L", "M",
            "N", "O", "P", "Q", "R", "S", "T", "U", "V", "W", "X", "Y", "Z">>
Lowers == <<"a", "b", "c", "d", "e", "f", "g", "h", "i", "j", "k", "l", "m",
            "n", "o", "p", "q", "r", "s", "t", "u", "v", "w", "x", "y", "z">>

LowerChar(c) ==
    IF \E i \in 1..Len(Uppers) : Uppers[i] = c
    THEN Lowers[CHOOSE i \in 1..Len(Uppers) : Uppers[i] = c]
    ELSE c

\* a slip: the text is left in the case it came in
LowerKeepingCase(s) == s

\* str.lower()
Lower(s) == [i \in 1..Len(s) |-> LowerChar(s[i])]

\* str.strip()
RECURSIVE LStrip(_)
LStrip(s) == IF s # <<>> /\ Head(s) \in Whitespace THEN LStrip(Tail(s)) ELSE s

RECURSIVE RStrip(_)
RStrip(s) ==
    IF s # <<>> /\ s[Len(s)] \in Whitespace THEN RStrip(SubSeq(s, 1, Len(s) - 1)) ELSE s

Strip(s) == RStrip(LStrip(s))

\* str.split(): the maximal runs of non-whitespace characters, in order
RECURSIVE SplitFrom(_, _)
SplitFrom(s, from) ==
    LET inked == {j \in from..Len(s) : s[j] \notin Whitespace}
    IN  IF inked = {} THEN <<>>
        ELSE LET first == CHOOSE j \in inked : \A k \in inked : j <= k
                 blanks == {j \in first..Len(s) : s[j] \in Whitespace}
                 stop == IF blanks = {} THEN Len(s) + 1
                         ELSE CHOOSE j \in blanks : \A k \in blanks : j <= k
             IN  <<SubSeq(s, first, stop - 1)>> \o SplitFrom(s, stop)

Split(s) == SplitFrom(s, 1)

\* str.split(sep) for a one-character sep: the pieces between occurrences
RECURSIVE SplitOnFrom(_, _, _)
SplitOnFrom(s, sep, piece) ==
    IF s = <<>> THEN <<piece>>
    ELSE IF Head(s) = sep
         THEN <<piece>> \o SplitOnFrom(Tail(s), sep, <<>>)
         ELSE SplitOnFrom(Tail(s), sep, Append(piece, Head(s)))

SplitOn(s, sep) == SplitOnFrom(s, sep, <<>>)

\* str.startswith(prefix)
StartsWith(s, prefix) ==
    Len(s) >= Len(prefix) /\ SubSeq(s, 1, Len(prefix)) = prefix

-----------------------------------------------------------------------------
(* MetricsCalculator.token_overlap_f1                                      *)

\* a slip: a multiset F1, where a repeated word counts each time it occurs
token_overlap_f1_counting(predicted, reference) ==
    LET pred_tokens == Split(Lower(predicted))
        ref_tokens == Split(Lower(reference))
        common == Range(pred_tokens) \cap Range(ref_tokens)
    IN  IF Len(pred_tokens) = 0 \/ Len(ref_tokens) = 0 THEN Zero
        ELSE IF Cardinality(common) = 0 THEN Zero
        ELSE LET precision == Rat(Cardinality(common), Len(pred_tokens))
                 recall == Rat(Cardinality(common), Len(ref_tokens))
             IN  RDiv(RMul(Rat(2, 1), RMul(precision, recall)), RAdd(precision, recall))

\* a slip: the factor 2 of the harmonic mean is left out
token_overlap_f1_halved(predicted, reference) ==
    LET pred_tokens == Range(Split(Lower(predicted)))
        ref_tokens == Range(Split(Lower(reference)))
        common == pred_tokens \cap ref_tokens
    IN  IF Cardinality(pred_tokens) = 0 \/ Cardinality(ref_tokens) = 0 THEN Zero
        ELSE IF Cardinality(common) = 0 THEN Zero
        ELSE LET precision == Rat(Cardinality(common), Cardinality(pred_tokens))
                 recall == Rat(Cardinality(common), Cardinality(ref_tokens))
             IN  RDiv(RMul(precision, recall), RAdd(precision, recall))

token_overlap_f1(predicted, reference) ==
    LET pred_tokens == Range(Split(Lower(predicted)))
        ref_tokens == Range(Split(Lower(reference)))
        common == pred_tokens \cap ref_tokens
    IN  IF Cardinality(pred_tokens) = 0 \/ Cardinality(ref_tokens) = 0 THEN Zero
        ELSE IF Cardinality(common) = 0 THEN Zero
        ELSE LET precision == Rat(Cardinality(common), Cardinality(pred_tokens))
                 recall == Rat(Cardinality(common), Cardinality(ref_tokens))
             IN  RDiv(RMul(Rat(2, 1), RMul(precision, recall)), RAdd(precision, recall))

MetricAlphabet == {"a", "A", " "}
MetricTexts == SeqsUpTo(MetricAlphabet, MaxLen)

InitF1 ==
    \E p \in MetricTexts, r \in MetricTexts :
        Invoke([fn |-> "token_overlap_f1", predicted |-> p, reference |-> r])

TokenOverlapF1 ==
    /\ call.fn = "token_overlap_f1"
    /\ ret = NotReturned
    /\ Return(token_overlap_f1(call.predicted, call.reference))

NextF1 == TokenOverlapF1

SpecF1 == InitF1 /\ [][NextF1]_vars

\* The lowercased whitespace-separated tokens of a text, said directly: the
\* stretches of non-whitespace characters bounded by whitespace or the ends.
TokenSetOf(s) ==
    {Lower(SubSeq(s, i, j)) : <<i, j>> \in
        {ij \in (1..Len(s)) \X (1..Len(s)) :
            /\ ij[1] <= ij[2]
            /\ \A k \in ij[1]..ij[2] : s[k] \notin Whitespace
            /\ (ij[1] = 1 \/ s[ij[1] - 1] \in Whitespace)
            /\ (ij[2] = Len(s) \/ s[ij[2] + 1] \in Whitespace)}}

\* C10: with P and R the token sets, token_overlap_f1 is 0.0 when P, R or
\* their intersection is empty and otherwise 2|P n R|/(|P|+|R|), the harmonic
\* mean of precision and recall, a value in (0,1]; repeating a word of either
\* text changes nothing.
C10_TokenOverlapF1 ==
    (call.fn = "token_overlap_f1" /\ ret.kind = "return") =>
        LET P == TokenSetOf(call.predicted)
            R == TokenSetOf(call.reference)
            n == Cardinality(P \cap R)
        IN  /\ (P = {} \/ R = {} \/ P \cap R = {}) => ret.value = Zero
            /\ (P # {} /\ R # {} /\ P \cap R # {}) =>
                  /\ ret.value = Rat(2 * n, Cardinality(P) + Cardinality(R))
                  /\ RMul(ret.value,
                          RAdd(Rat(Cardinality(P), n), Rat(Cardinality(R), n))) = Rat(2, 1)
                  /\ RLt(Zero, ret.value) /\ RLe(ret.value, One)
            /\ \A w \in Range(Split(call.predicted)) :
                  token_overlap_f1(call.predicted \o <<" ">> \o w, call.reference)
                      = ret.value
            /\ \A w \in Range(Split(call.reference)) :
                  token_overlap_f1(call.predicted, call.reference \o <<" ">> \o w)
                      = ret.value

\* "a A" against "a aa": the repeated word (after lowercasing) collapses,
\* P = {a}, R = {a, aa}, precision 1, recall 1/2, F1 = 2/3.
C10_Witness ==
    /\ call.fn = "token_overlap_f1"
    /\ ret.kind = "return"
    /\ call.predicted = <<"a", " ", "A">>
    /\ call.reference = <<"a", " ", "a", "a">>
    /\ ret.value = Rat(2, 3)


F1OfIdentical ==
    call.fn = "token_overlap_f1" /\ ret.kind = "return" /\ call.predicted = call.reference

\* C11 as stated: token_overlap_f1(a, a) is 1.0 for every non-empty string a.
C11_F1Identical_AsStated ==
    (F1OfIdentical /\ call.predicted # <<>>) => ret.value = One

\* C11 as amended: token_overlap_f1(a, a) is 1.0 for every string a that
\* holds a character that is not whitespace, and 0.0 for every other a.
C11_F1Identical ==
    F1OfIdentical =>
        IF \E i \in 1..Len(call.predicted) : call.predicted[i] \notin Whitespace
        THEN ret.value = One
        ELSE ret.value = Zero

\* "a A" against itself: one token after lowercasing, F1 = 1.0
C11_Witness ==
    /\ F1OfIdentical
    /\ call.predicted = <<"a", " ", "A">>
    /\ ret.value = One

-----------------------------------------------------------------------------
(* MetricsCalculator.exact_match                                           *)

\* a slip: the comparison is case-sensitive
exact_match_cased(predicted, reference) ==
    IF Strip(predicted) = Strip(reference) THEN One ELSE Zero

exact_match(predicted, reference) ==
    IF Lower(Strip(predicted)) = Lower(Strip(reference)) THEN One ELSE Zero

InitExact ==
    \E p \in MetricTexts, r \in MetricTexts :
        Invoke([fn |-> "exact_match", predicted |-> p, reference |-> r])

ExactMatch ==
    /\ call.fn = "exact_match"
    /\ ret = NotReturned
    /\ Return(exact_match(call.predicted, call.reference))

NextExact == ExactMatch

SpecExact == InitExact /\ [][NextExact]_vars

\* The positions of a text that are not whitespace.
Inked(s) == {i \in 1..Len(s) : s[i] \notin Whitespace}

Least(S) == CHOOSE x \in S : \A y \in S : x <= y
Greatest(S) == CHOOSE x \in S : \A y \in S : y <= x

\* Two texts are equal after removing leading/trailing whitespace and
\* lowercasing: both are all whitespace, or their stretches from the first
\* to the last non-whitespace character agree character by character up to
\* case.
SameUpToCaseAndMargins(p, r) ==
    IF Inked(p) = {} \/ Inked(r) = {} THEN Inked(p) = {} /\ Inked(r) = {}
    ELSE LET pl == Least(Inked(p))
             rl == Least(Inked(r))
             n == Greatest(Inked(p)) - pl
         IN  /\ Greatest(Inked(r)) - rl = n
             /\ \A k \in 0..n : LowerChar(p[pl + k]) = LowerChar(r[rl + k])

\* C12: exact_match returns 1.0 exactly when the two strings are equal after
\* removing leading/trailing whitespace and lowercasing, and 0.0 otherwise;
\* so it returns only 0.0 or 1.0, and swapping its arguments gives the same
\* result.
C12_ExactMatch ==
    (call.fn = "exact_match" /\ ret.kind = "return") =>
        /\ ret.value \in {Zero, One}
        /\ (ret.value = One) <=> SameUpToCaseAndMargins(call.predicted, call.reference)
        /\ exact_match(call.reference, call.predicted) = ret.value

\* " aA" against "Aa ": equal up to case and surrounding whitespace
C12_Witness ==
    /\ call.fn = "exact_match"
    /\ ret.kind = "return"
    /\ call.predicted = <<" ", "a", "A">>
    /\ call.reference = <<"A", "a", " ">>
    /\ ret.value = One

-----------------------------------------------------------------------------
(* The `random` module and the salted str hash.                            *)
(*                                                                         *)
(* hash() of a str is salted per process: the value for a text is unknown  *)
(* until the process first computes it and fixed from then on, which the   *)
(* variable `hashes` records.  The generator is a fixed function of its    *)
(* seed and of the number of draws since seeding; as the seed varies its   *)
(* first three draws take every combination of values.                     *)

HashModulus == 10000

JitterLevels == 0..JitterSteps

RECURSIVE Power(_, _)
Power(b, e) == IF e = 0 THEN 1 ELSE b * Power(b, e - 1)

\* hash values a text may get: enough for every combination of three draws,
\* one beyond the modulus and a negative one
HashValues == (0..(Power(JitterSteps + 1, 3) - 1)) \cup {HashModulus + 1, -1}

\* random.random() after seed(seed) and pos earlier draws
Random(g) ==
    Rat((g.seed \div Power(JitterSteps + 1, g.pos)) % (JitterSteps + 1), JitterSteps)

\* random.seed(x)
Seed(g, x) == [seed |-> x, pos |-> 0]

Advance(g, k) == [g EXCEPT !.pos = @ + k]

\* a slip: the draw is not scaled to the width of the interval
\* a slip: the jitter is twice as wide
UniformTwice(g, k, a, b) ==
    RMul(Rat(2, 1), RAdd(a, RMul(RSub(b, a), Random(Advance(g, k)))))

UniformUnscaled(g, k, a, b) == RAdd(a, Random(Advance(g, k)))

\* random.uniform(a, b) as the (k+1)-th draw from generator state g
Uniform(g, k, a, b) == RAdd(a, RMul(RSub(b, a), Random(Advance(g, k))))

-----------------------------------------------------------------------------
(* LLMEvaluator                                                            *)

None == "None"
Truthy(x) == x \notin {None, ""}

\* LLMEvaluator.__init__(api_key) with OPENAI_API_KEY = env_key
LLMEvaluatorInit(api_key, env_key, OPENAI_AVAILABLE) ==
    LET key == IF Truthy(api_key) THEN api_key ELSE env_key
    IN  [api_key |-> key,
         judge_model |-> "gpt-4",
         client |-> IF Truthy(key) /\ OPENAI_AVAILABLE THEN "OpenAI" ELSE None]

DefaultScores == [accuracy |-> Half, faithfulness |-> Half, completeness |-> Half]

Min2(a, b) == IF a <= b THEN a ELSE b
Max2(a, b) == IF a >= b THEN a ELSE b

\* a slip: the scores are returned as computed
FinalClampMissing(x) == x

\* max(0.3, min(1.0, x))
FinalClamp(x) == RMax(Rat(3, 10), RMin(One, x))

\* LLMEvaluator._mock_evaluate, with g the generator state after its seeding
MockScores(output, reference, question, g) ==
    LET len_ratio == Rat(Min2(Len(output), Len(reference)),
                         Max2(Max2(Len(output), Len(reference)), 1))
        length_score == RAdd(Half, RMul(len_ratio, Rat(3, 10)))
        output_lower == Lower(output)
        ref_lower == Lower(reference)
        ref_words == Range(Split(ref_lower))
        out_words == Range(Split(output_lower))
        overlap == IF ref_words # {}
                   THEN Rat(Cardinality(ref_words \cap out_words), Cardinality(ref_words))
                   ELSE Zero
        keyword_score == RAdd(Rat(4, 10), RMul(overlap, Half))
        length_penalty == IF Len(output) < 5 THEN Rat(3, 10)
                          ELSE IF Len(output) > Len(reference) * 3 THEN Rat(1, 10)
                          ELSE Zero
        question_words == Range(Split(Lower(question)))
        echo_penalty ==
            IF RLt(RMul(Rat(Cardinality(question_words), 1), Rat(7, 10)),
                   Rat(Cardinality(question_words \cap out_words), 1))
            THEN Rat(5, 100) ELSE Zero
        base_accuracy ==
            RMax(Rat(4, 10),
                 RMin(Rat(95, 100),
                      RSub(RDivInt(RAdd(length_score, keyword_score), 2), length_penalty)))
        accuracy == RAdd(base_accuracy, Uniform(g, 0, Rat(-5, 100), Rat(5, 100)))
        faithfulness ==
            RSub(RAdd(base_accuracy, Uniform(g, 1, Rat(-8, 100), Rat(8, 100))),
                 echo_penalty)
        completeness == RAdd(keyword_score, Uniform(g, 2, Rat(-1, 10), Rat(1, 10)))
    IN  [accuracy |-> FinalClamp(accuracy),
         faithfulness |-> FinalClamp(faithfulness),
         completeness |-> FinalClamp(completeness)]

\* a slip: the generator is left as the previous call left it
MockNotSeeded(g, h) == g

\* the generator state _mock_evaluate computes its scores from: line 140
MockSeeded(g, h) == Seed(g, h % HashModulus)

\* hash(text): the recorded value, or any value on first use
HashChoices(text) ==
    IF text \in DOMAIN hashes THEN {hashes[text]} ELSE HashValues

Remember(text, h) ==
    [t \in DOMAIN hashes \cup {text} |-> IF t = text THEN h ELSE hashes[t]]

-----------------------------------------------------------------------------
(* LLMEvaluator._parse_scores                                              *)

Digits == <<"0", "1", "2", "3", "4", "5", "6", "7", "8", "9">>
IsDigit(c) == \E i \in 1..10 : Digits[i] = c
DigitValue(c) == (CHOOSE i \in 1..10 : Digits[i] = c) - 1

RECURSIVE DigitsToInt(_)
DigitsToInt(ds) ==
    IF ds = <<>> THEN 0
    ELSE 10 * DigitsToInt(SubSeq(ds, 1, Len(ds) - 1)) + DigitValue(ds[Len(ds)])

NaN == [num |-> 0, den |-> 0]
Infinity == [num |-> 1, den |-> 0]

Unparsable == [ok |-> FALSE]
Parsed(v) == [ok |-> TRUE, value |-> v]

Negate(r) == IF r.ok THEN Parsed([num |-> -r.value.num, den |-> r.value.den]) ELSE r

\* float(text) of an unsigned numeral: digits with at most one point, or
\* nan / inf / infinity (exponents and digit-group underscores are not
\* modelled: no text of the model holds one)
ParseUnsigned(t) ==
    IF t = <<"n", "a", "n">> THEN Parsed(NaN)
    ELSE IF t \in {<<"i", "n", "f">>, <<"i", "n", "f", "i", "n", "i", "t", "y">>}
    THEN Parsed(Infinity)
    ELSE LET points == {i \in 1..Len(t) : t[i] = "."}
             digits == SelectSeq(t, IsDigit)
         IN  IF /\ \A i \in 1..Len(t) : IsDigit(t[i]) \/ t[i] = "."
                /\ Cardinality(points) <= 1
                /\ digits # <<>>
             THEN Parsed(Rat(DigitsToInt(digits),
                             IF points = {} THEN 1
                             ELSE Power(10, Len(t) - (CHOOSE i \in points : TRUE))))
             ELSE Unparsable

\* float(text): raises ValueError (Unparsable) unless text, lowercased and
\* stripped, is an optionally signed numeral
ParseFloat(text) ==
    LET t == Lower(Strip(text))
    IN  IF t = <<>> THEN Unparsable
        ELSE IF t[1] = "-" THEN Negate(ParseUnsigned(Tail(t)))
        ELSE IF t[1] = "+" THEN ParseUnsigned(Tail(t))
        ELSE ParseUnsigned(t)

KeyPrefix ==
    [accuracy |-> <<"a", "c", "c", "u", "r", "a", "c", "y", ":">>,
     faithfulness |-> <<"f", "a", "i", "t", "h", "f", "u", "l", "n", "e", "s", "s", ":">>,
     completeness |-> <<"c", "o", "m", "p", "l", "e", "t", "e", "n", "e", "s", "s", ":">>]

ScoreFields == <<"accuracy", "faithfulness", "completeness">>

\* a slip: the line is matched as written, without lowercasing
NormalizeLineKeepingCase(line) == Strip(line)

\* line = line.strip().lower()
NormalizeLine(line) == Lower(Strip(line))

\* the first key, in the order of the if/elif chain, the line starts with
MatchedField(line) ==
    IF \E i \in 1..3 : StartsWith(line, KeyPrefix[ScoreFields[i]])
    THEN LET i == CHOOSE i \in 1..3 :
                    /\ StartsWith(line, KeyPrefix[ScoreFields[i]])
                    /\ \A j \in 1..(i - 1) : ~StartsWith(line, KeyPrefix[ScoreFields[j]])
         IN  ScoreFields[i]
    ELSE None

\* a slip: a value that does not parse puts the default back
ParseLineResetting(scores_, raw) ==
    LET line == NormalizeLine(raw)
        field == MatchedField(line)
    IN  IF field = None THEN scores_
        ELSE LET pieces == SplitOn(line, ":")
                 value == IF Len(pieces) >= 2 THEN ParseFloat(Strip(pieces[2]))
                          ELSE Unparsable
             IN  [scores_ EXCEPT ![field] = IF value.ok THEN value.value ELSE Half]

\* one pass of the loop body over a line
ParseLine(scores_, raw) ==
    LET line == NormalizeLine(raw)
        field == MatchedField(line)
    IN  IF field = None THEN scores_
        ELSE LET pieces == SplitOn(line, ":")
                 value == IF Len(pieces) >= 2 THEN ParseFloat(Strip(pieces[2]))
                          ELSE Unparsable
             IN  IF value.ok THEN [scores_ EXCEPT ![field] = value.value] ELSE scores_

RECURSIVE ParseLines(_, _)
ParseLines(scores_, lines) ==
    IF lines = <<>> THEN scores_
    ELSE ParseLines(ParseLine(scores_, Head(lines)), Tail(lines))

NoneText == <<"None">>

\* LLMEvaluator._parse_scores: the scores, or the AttributeError of
\* None.strip() when the response carries no text
parse_scores(response_text) ==
    IF response_text = NoneText THEN Raised("AttributeError")
    ELSE Returned(ParseLines(DefaultScores, SplitOn(Strip(response_text), "\n")))

LineAccuracy == <<"A", "c", "c", "u", "r", "a", "c", "y", ":", " ", "0", ".", "9", "5">>
LineFaithfulness == <<"F", "a", "i", "t", "h", "f", "u", "l", "n", "e", "s", "s", ":", " ", "0", ".", "9", "0">>
LineCompleteness == <<"C", "o", "m", "p", "l", "e", "t", "e", "n", "e", "s", "s", ":", " ", "0", ".", "8", "5">>
LineUnrelated == <<"R", "a", "n", "d", "o", "m", " ", "t", "e", "x", "t", " ", "w", "i", "t", "h", "o", "u", "t", " ", "s", "c", "o", "r", "e", "s">>
LineWord == <<"a", "c", "c", "u", "r", "a", "c", "y", ":", " ", "h", "i", "g", "h">>
LineShouted == <<" ", " ", "A", "C", "C", "U", "R", "A", "C", "Y", ":", "1", ".", "5", " ">>
LineNoValue == <<"f", "a", "i", "t", "h", "f", "u", "l", "n", "e", "s", "s", ":">>
LineSecondColon == <<"C", "o", "m", "p", "l", "e", "t", "e", "n", "e", "s", "s", ":", " ", "0", ".", "7", ":", " ", "o", "k">>
LineNoColon == <<"a", "c", "c", "u", "r", "a", "c", "y", " ", "0", ".", "9">>
LineEmpty == <<>>
LineKeyInside == <<"T", "h", "e", " ", "a", "c", "c", "u", "r", "a", "c", "y", ":", " ", "0", ".", "1">>
LineNegative == <<"f", "a", "i", "t", "h", "f", "u", "l", "n", "e", "s", "s", ":", " ", "-", "2">>
LineNaN == <<"c", "o", "m", "p", "l", "e", "t", "e", "n", "e", "s", "s", ":", " ", "N", "a", "N">>
LineTrailing == <<"A", "c", "c", "u", "r", "a", "c", "y", ":", " ", "0", ".", "2", " ", "a", "p", "p", "r", "o", "x">>

LinePool ==
    {LineAccuracy, LineFaithfulness, LineCompleteness, LineUnrelated,
     LineWord, LineShouted, LineNoValue, LineSecondColon,
     LineNoColon, LineEmpty, LineKeyInside, LineNegative,
     LineNaN, LineTrailing}

RECURSIVE JoinLines(_)
JoinLines(lines) ==
    IF lines = <<>> THEN <<>>
    ELSE IF Len(lines) = 1 THEN lines[1]
    ELSE lines[1] \o <<"\n">> \o JoinLines(Tail(lines))

ResponseTexts == {JoinLines(ls) : ls \in SeqsUpTo(LinePool, MaxLines)}

InitParse ==
    \E t \in ResponseTexts : Invoke([fn |-> "_parse_scores", response_text |-> t])

ParseScores ==
    /\ call.fn = "_parse_scores"
    /\ ret = NotReturned
    /\ ret' = parse_scores(call.response_text)
    /\ UNCHANGED <<runner, files, gen_log, evaluator, hashes, rng, judge_log,
                   observed, call>>

NextParse == ParseScores

SpecParse == InitParse /\ [][NextParse]_vars

\* The text a matching line carries for its key: what follows the prefix, up
\* to the next colon or the end of the line.
SegmentAfter(line, prefix) ==
    LET rest == SubSeq(line, Len(prefix) + 1, Len(line))
        colons == {i \in 1..Len(rest) : rest[i] = ":"}
        cut == IF colons = {} THEN Len(rest) + 1
               ELSE CHOOSE i \in colons : \A j \in colons : i <= j
    IN  SubSeq(rest, 1, cut - 1)

\* The lines of a response that give field f a number.
LinesGiving(text, f) ==
    LET lines == SplitOn(Strip(text), "\n")
    IN  {i \in 1..Len(lines) :
            /\ StartsWith(Lower(Strip(lines[i])), KeyPrefix[f])
            /\ ParseFloat(SegmentAfter(Lower(Strip(lines[i])), KeyPrefix[f])).ok}

NumberOn(text, f, i) ==
    LET line == Lower(Strip(SplitOn(Strip(text), "\n")[i]))
    IN  ParseFloat(SegmentAfter(line, KeyPrefix[f])).value

Last(S) == CHOOSE i \in S : \A j \in S : j <= i

\* The lines of a response that start with the key of field f.
LinesFor(text, f) ==
    LET lines == SplitOn(Strip(text), "\n")
    IN  {i \in 1..Len(lines) : StartsWith(Lower(Strip(lines[i])), KeyPrefix[f])}

\* a sequence without its i-th element
Without(s, i) == SubSeq(s, 1, i - 1) \o SubSeq(s, i + 1, Len(s))

WellFormedExample == JoinLines(<<LineAccuracy, LineFaithfulness, LineCompleteness>>)

\* C8: _parse_scores raises for no response string; each field gets the
\* number of its (last) line that carries a parsable one and otherwise keeps
\* 0.5, whatever the other fields' lines hold; the well-formed example yields
\* 0.95, 0.90, 0.85 and an unrelated string the three defaults.
C8_ParseScores ==
    (call.fn = "_parse_scores" /\ ret # NotReturned) =>
        /\ ret.kind = "return"
        /\ DOMAIN ret.value = {"accuracy", "faithfulness", "completeness"}
        /\ \A f \in DOMAIN ret.value :
              LET giving == LinesGiving(call.response_text, f)
              IN  ret.value[f] = IF giving = {} THEN Half
                                 ELSE NumberOn(call.response_text, f, Last(giving))
        /\ call.response_text = WellFormedExample =>
              ret.value = [accuracy |-> Rat(95, 100), faithfulness |-> Rat(90, 100),
                           completeness |-> Rat(85, 100)]
        /\ call.response_text = LineUnrelated => ret.value = DefaultScores

\* One field parsed (upper case, no space, value 1.5), one with a word for a
\* value and one with no line at all: the first gets its number, the other
\* two keep 0.5.
C8_Witness ==
    /\ call.fn = "_parse_scores"
    /\ call.response_text = JoinLines(<<LineShouted, LineNoValue, LineUnrelated>>)
    /\ ret = Returned([accuracy |-> Rat(3, 2), faithfulness |-> Half,
                       completeness |-> Half])

-----------------------------------------------------------------------------
(* LLMEvaluator._mock_evaluate and LLMEvaluator.evaluate_response          *)

MockCall(output, reference, question, scores) ==
    [fn |-> "_mock_evaluate", output |-> output, reference |-> reference,
     question |-> question, scores |-> scores]

\* a call of _mock_evaluate: seeds the global generator from the salted hash
\* of output + reference, draws three times and returns the scores
mock_evaluate(output, reference, question) ==
    \E h \in HashChoices(output \o reference) :
        LET g == MockSeeded(rng, h)
            scores == MockScores(output, reference, question, g)
        IN  /\ hashes' = Remember(output \o reference, h)
            /\ rng' = Advance(g, 3)
            /\ observed' = Append(observed, MockCall(output, reference, question, scores))
            /\ ret' = Returned(scores)

\* a slip: the arguments handed on in evaluate_response's own order
MockPathInCallerOrder(question, model_output, reference_answer) ==
    mock_evaluate(question, model_output, reference_answer)

\* return self._mock_evaluate(model_output, reference_answer, question)
MockPath(question, model_output, reference_answer) ==
    mock_evaluate(model_output, reference_answer, question)

\* What the external judge does with one request: the call raises (a network
\* or API error, a timeout), answers with no choices, with a message without
\* content, or with a text.
JudgeFailures ==
    {[kind |-> "raises", error |-> "APIConnectionError"],
     [kind |-> "raises", error |-> "APITimeoutError"],
     [kind |-> "no_choices"],
     [kind |-> "no_content"]}

JudgeResponses ==
    {WellFormedExample, LineUnrelated, LineShouted,
     JoinLines(<<LineAccuracy, LineNegative, LineNaN>>)}

JudgeOutcomes == JudgeFailures \cup {[kind |-> "text", text |-> t] : t \in JudgeResponses}

\* the body of the try block: the request, response.choices[0].message.content
\* and _parse_scores
TryBody(outcome) ==
    CASE outcome.kind = "raises" -> Raised(outcome.error)
      [] outcome.kind = "no_choices" -> Raised("IndexError")
      [] outcome.kind = "no_content" -> parse_scores(NoneText)
      [] outcome.kind = "text" -> parse_scores(outcome.text)

\* a slip: only the client library's own errors are caught
ExceptAPIErrorOnly(r) ==
    IF r.kind = "raise" /\ r.error \in {"APIConnectionError", "APITimeoutError"}
    THEN Returned(DefaultScores)
    ELSE r

\* except Exception: return the default scores
ExceptException(r) == IF r.kind = "raise" THEN Returned(DefaultScores) ELSE r

Aaa == <<"A", "a", "a">>
aaa == <<"a", "a", "a">>
b == <<"b">>

\* the words of the outputs and of the references differ in case only
OutputVocabulary == {Aaa, b}
ReferenceVocabulary == {aaa, b}

RECURSIVE JoinWords(_)
JoinWords(ws) ==
    IF ws = <<>> THEN <<>>
    ELSE IF Len(ws) = 1 THEN ws[1]
    ELSE ws[1] \o <<" ">> \o JoinWords(Tail(ws))

OutputTexts == {JoinWords(ws) : ws \in SeqsUpTo(OutputVocabulary, MaxWords)}
ReferenceTexts == {JoinWords(ws) : ws \in SeqsUpTo(ReferenceVocabulary, MaxWords)}
Questions == {<<>>, b, JoinWords(<<Aaa, b>>)}
Contexts == {NoneText}
ApiKeys == {None, "sk-test"}

InitJudge ==
    /\ evaluator \in {LLMEvaluatorInit(k, e, a) :
                        k \in ApiKeys, e \in ApiKeys, a \in BOOLEAN}
    /\ hashes = <<>>
    /\ rng = Unseeded
    /\ judge_log = <<>>
    /\ runner = NoObject
    /\ files = NoFiles
    /\ gen_log = <<>>
    /\ observed = <<>>
    /\ call \in {[fn |-> "evaluate_response", question |-> q, model_output |-> o,
                  reference_answer |-> r, context |-> c] :
                    q \in Questions, o \in OutputTexts, r \in ReferenceTexts,
                    c \in Contexts}
    /\ ret = NotReturned

\* evaluate_response without a client: lines 61-63
EvaluateResponseMock ==
    /\ call.fn = "evaluate_response"
    /\ ret = NotReturned
    /\ ~Truthy(evaluator.client)
    /\ MockPath(call.question, call.model_output, call.reference_answer)
    /\ UNCHANGED <<runner, files, gen_log, evaluator, judge_log, call>>

\* evaluate_response with a client: lines 65-97
EvaluateResponseLive ==
    /\ call.fn = "evaluate_response"
    /\ ret = NotReturned
    /\ Truthy(evaluator.client)
    /\ \E outcome \in JudgeOutcomes :
          /\ judge_log' = Append(judge_log, outcome)
          /\ ret' = ExceptException(TryBody(outcome))
    /\ UNCHANGED <<runner, files, gen_log, evaluator, hashes, rng, observed,
                   call>>

NextJudge == EvaluateResponseMock \/ EvaluateResponseLive

SpecJudge == InitJudge /\ [][NextJudge]_vars

\* a float between lo and hi (NaN and the infinities are not)
Between(lo, x, hi) == x.den > 0 /\ RLe(lo, x) /\ RLe(x, hi)

MockJudgeCalls == {e \in Range(observed) : e.fn = "_mock_evaluate"}

\* C4: whatever the output, reference and question (empty ones included) and
\* whatever the three jitter draws, every value the Mock Judge returns lies
\* in [0.3, 1.0].
C4_MockScoresInRange ==
    \A e \in MockJudgeCalls :
        /\ DOMAIN e.scores = {"accuracy", "faithfulness", "completeness"}
        /\ \A f \in DOMAIN e.scores : Between(Rat(3, 10), e.scores[f], One)

\* The output "b" echoes the question "b" and shares no word with the
\* reference "aaa": base accuracy is floored at 0.4, the lowest draws give
\* accuracy 0.35 and faithfulness 0.4 - 0.08 - 0.05 = 0.27, returned as 0.3.
C4_Witness ==
    \E e \in MockJudgeCalls :
        /\ e.output = b /\ e.reference = aaa /\ e.question = b
        /\ e.scores.accuracy = Rat(35, 100)
        /\ e.scores.faithfulness = Rat(3, 10)
        /\ e.scores.completeness = Rat(3, 10)

EvaluateResponseDone == call.fn = "evaluate_response" /\ ret # NotReturned

\* C6: evaluate_response returns accuracy, faithfulness and completeness
\* each in [0,1] on every path: the mock fallback, a judge call that
\* succeeds with any response text, and a judge call that fails.
C6_ScoresInUnitInterval ==
    EvaluateResponseDone =>
        /\ ret.kind = "return"
        /\ \A f \in {"accuracy", "faithfulness", "completeness"} :
              Between(Zero, ret.value[f], One)

JudgeFailed == judge_log # <<>> /\ judge_log[Len(judge_log)] \in JudgeFailures

\* C7: with a judge client configured, a judge call that fails in any way
\* (it raises, it times out, the response object is malformed) makes
\* evaluate_response return exactly 0.5, 0.5, 0.5; nothing is raised.
C7_JudgeFailureGivesDefaults ==
    (EvaluateResponseDone /\ Truthy(evaluator.client) /\ JudgeFailed) =>
        ret = Returned([accuracy |-> Half, faithfulness |-> Half, completeness |-> Half])

\* The judge answered with a message that has no content, which fails inside
\* _parse_scores, and the caller got the defaults.
C7_Witness ==
    /\ EvaluateResponseDone
    /\ evaluator.client = "OpenAI"
    /\ judge_log = <<[kind |-> "no_content"]>>
    /\ ret = Returned(DefaultScores)

\* C9: without a judge client (no API key, or the client library missing)
\* evaluate_response sends nothing to the judge and returns what the Mock
\* Judge returns for (output = model_output, reference = reference_answer,
\* question = question), all three keys present.
C9_FallsBackToMockJudge ==
    (EvaluateResponseDone /\ evaluator.client = None) =>
        /\ judge_log = <<>>
        /\ runner = NoObject
        /\ files = NoFiles
        /\ gen_log = <<>>
        /\ ret.kind = "return"
        /\ DOMAIN ret.value = {"accuracy", "faithfulness", "completeness"}
        /\ (call.model_output \o call.reference_answer) \in DOMAIN hashes
        /\ ret.value =
              MockScores(call.model_output, call.reference_answer, call.question,
                         [seed |-> hashes[call.model_output \o call.reference_answer]
                                      % HashModulus,
                          pos |-> 0])

\* An API key is set but the client library is missing: the call for the
\* output "Aaa b", the reference "b" and the question "b" was answered by the
\* Mock Judge and no request went out.
C9_Witness ==
    /\ EvaluateResponseDone
    /\ evaluator.api_key = "sk-test"
    /\ evaluator.client = None
    /\ call.model_output = JoinWords(<<Aaa, b>>)
    /\ call.reference_answer = b
    /\ call.question = b
    /\ judge_log = <<>>
    /\ runner = NoObject
    /\ files = NoFiles
    /\ gen_log = <<>>
    /\ observed = <<MockCall(call.model_output, call.reference_answer, call.question,
                              ret.value)>>

-----------------------------------------------------------------------------
(* EvaluationRunner._generate_mock_response                                *)

\* sub in s
Contains(s, sub) ==
    \E i \in 0..(Len(s) - Len(sub)) : SubSeq(s, i + 1, i + Len(sub)) = sub

Text_step == <<"s", "t", "e", "p">>
Text_think == <<"t", "h", "i", "n", "k">>
Text_accurate == <<"a", "c", "c", "u", "r", "a", "t", "e">>
Text_precise == <<"p", "r", "e", "c", "i", "s", "e">>
Text_context == <<"c", "o", "n", "t", "e", "x", "t">>
Text_hashes == <<"#", "#", "#">>
Text_stars == <<"*", "*">>

\* the heuristic quality of a prompt template: lines 121-134
QualityScore(prompt) ==
    LET prompt_lower == Lower(prompt)
    IN  (IF Contains(prompt_lower, Text_step) \/ Contains(prompt_lower, Text_think)
         THEN 2 ELSE 0)
        + (IF Contains(prompt_lower, Text_accurate) \/ Contains(prompt_lower, Text_precise)
           THEN 1 ELSE 0)
        + (IF Contains(prompt_lower, Text_context) THEN 1 ELSE 0)
        + (IF Len(prompt) > 150 THEN 1 ELSE 0)
        + (IF Contains(prompt, Text_hashes) \/ Contains(prompt, Text_stars) THEN 2 ELSE 0)

BaseResponses ==
    <<[key |-> <<"c", "a", "p", "i", "t", "a", "l", " ", "o", "f", " ",
                  "f", "r", "a", "n", "c", "e">>,
       value |-> <<"P", "a", "r", "i", "s">>],
      [key |-> <<"r", "o", "m", "e", "o", " ", "a", "n", "d", " ", "j",
                  "u", "l", "i", "e", "t">>,
       value |-> <<"W", "i", "l", "l", "i", "a", "m", " ", "S", "h", "a",
                  "k", "e", "s", "p", "e", "a", "r", "e">>],
      [key |-> <<"c", "h", "e", "m", "i", "c", "a", "l", " ", "s", "y",
                  "m", "b", "o", "l", " ", "f", "o", "r", " ", "g", "o",
                  "l", "d">>,
       value |-> <<"A", "u">>],
      [key |-> <<"f", "i", "r", "s", "t", " ", "m", "o", "o", "n", " ",
                  "l", "a", "n", "d", "i", "n", "g">>,
       value |-> <<"1", "9", "6", "9">>],
      [key |-> <<"l", "a", "r", "g", "e", "s", "t", " ", "p", "l", "a",
                  "n", "e", "t">>,
       value |-> <<"J", "u", "p", "i", "t", "e", "r">>],
      [key |-> <<"s", "p", "e", "e", "d", " ", "o", "f", " ", "l", "i",
                  "g", "h", "t">>,
       value |-> <<"a", "p", "p", "r", "o", "x", "i", "m", "a", "t", "e",
                  "l", "y", " ", "2", "9", "9", ",", "7", "9", "2", ",",
                  "4", "5", "8", " ", "m", "e", "t", "e", "r", "s", " ",
                  "p", "e", "r", " ", "s", "e", "c", "o", "n", "d">>],
      [key |-> <<"m", "o", "n", "a", " ", "l", "i", "s", "a">>,
       value |-> <<"L", "e", "o", "n", "a", "r", "d", "o", " ", "d", "a",
                  " ", "V", "i", "n", "c", "i">>]>>

MockAnswer == <<"T", "h", "i", "s", " ", "i", "s", " ", "a", " ", "m", "o",
              "c", "k", " ", "a", "n", "s", "w", "e", "r">>

\* the value of the first key of base_responses found in the question
BaseAnswer(question) ==
    LET q_lower == Lower(question)
        hits == {i \in 1..Len(BaseResponses) : Contains(q_lower, BaseResponses[i].key)}
    IN  IF hits = {} THEN MockAnswer
        ELSE BaseResponses[CHOOSE i \in hits : \A j \in hits : i <= j].value

Prefixes ==
    <<<<"B", "a", "s", "e", "d", " ", "o", "n", " ", "t", "h", "e", " ",
        "p", "r", "o", "v", "i", "d", "e", "d", " ", "i", "n", "f", "o",
        "r", "m", "a", "t", "i", "o", "n", ",", " ">>,
      <<"A", "n", "a", "l", "y", "z", "i", "n", "g", " ", "t", "h", "e",
        " ", "c", "o", "n", "t", "e", "x", "t", " ", "c", "a", "r", "e",
        "f", "u", "l", "l", "y", ",", " ">>,
      <<"T", "o", " ", "a", "n", "s", "w", "e", "r", " ", "t", "h", "i",
        "s", " ", "q", "u", "e", "s", "t", "i", "o", "n", ":", " ">>>>

Suffixes ==
    <<<<>>,
      <<".", " ", "T", "h", "i", "s", " ", "i", "s", " ", "d", "e", "r",
        "i", "v", "e", "d", " ", "d", "i", "r", "e", "c", "t", "l", "y",
        " ", "f", "r", "o", "m", " ", "t", "h", "e", " ", "g", "i", "v",
        "e", "n", " ", "c", "o", "n", "t", "e", "x", "t", ".">>,
      <<",", " ", "w", "h", "i", "c", "h", " ", "i", "s", " ", "t", "h",
        "e", " ", "c", "o", "r", "r", "e", "c", "t", " ", "a", "n", "s",
        "w", "e", "r", " ", "t", "o", " ", "t", "h", "e", " ", "q", "u",
        "e", "s", "t", "i", "o", "n", ".">>>>

\* random.choice(seq) as the (k+1)-th draw from generator state g
Choice(g, k, seq) ==
    seq[(((Advance(g, k).seed \div Power(JitterSteps + 1, Advance(g, k).pos))
            % (JitterSteps + 1)) % Len(seq)) + 1]

\* the generator state _generate_mock_response chooses from: line 118
GenerateSeeded(g, h) == Seed(g, h % HashModulus)

\* a slip: the medium and the low tier change places
MockResponseTiersSwapped(prompt, question, g) ==
    LET quality_score == QualityScore(prompt)
        answer == BaseAnswer(question)
    IN  IF quality_score >= 4
        THEN Choice(g, 0, Prefixes) \o answer \o Choice(g, 1, Suffixes)
        ELSE IF quality_score >= 2
             THEN (IF Split(answer) # <<>> THEN Split(answer)[1] ELSE answer)
        ELSE answer

\* the text returned, with g the generator state after the seeding
MockResponse(prompt, question, g) ==
    LET quality_score == QualityScore(prompt)
        answer == BaseAnswer(question)
    IN  IF quality_score >= 4
        THEN Choice(g, 0, Prefixes) \o answer \o Choice(g, 1, Suffixes)
        ELSE IF quality_score >= 2 THEN answer
        ELSE IF Split(answer) # <<>> THEN Split(answer)[1] ELSE answer

\* a call of _generate_mock_response: seeds the global generator from the
\* salted hash of the question and draws twice for a high-quality prompt
generate_mock_response(prompt, question, context) ==
    \E h \in HashChoices(question) :
        LET g == GenerateSeeded(rng, h)
            response == MockResponse(prompt, question, g)
        IN  /\ hashes' = Remember(question, h)
            /\ rng' = IF QualityScore(prompt) >= 4 THEN Advance(g, 2) ELSE g
            /\ observed' = Append(observed,
                                  [fn |-> "_generate_mock_response", prompt |-> prompt,
                                   question |-> question, context |-> context,
                                   response |-> response])
            /\ ret' = Returned(response)

-----------------------------------------------------------------------------
(* One process calling the two mock functions again and again.             *)

PromptPlain == <<"A", "n", "s", "w", "e", "r", ":", " ", "{", "q", "u", "e",
               "s", "t", "i", "o", "n", "}">>
PromptStructured ==
    <<"#", "#", "#", " ", "C", "o", "n", "t", "e", "x", "t", ":", " ", "{",
    "c", "o", "n", "t", "e", "x", "t", "}", " ", "#", "#", "#", " ", "T",
    "h", "i", "n", "k", ",", " ", "t", "h", "e", "n", " ", "a", "n", "s",
    "w", "e", "r", ":", " ", "{", "q", "u", "e", "s", "t", "i", "o", "n",
    "}">>
CapitalQuestion == <<"W", "h", "a", "t", " ", "i", "s", " ", "t", "h", "e",
                   " ", "c", "a", "p", "i", "t", "a", "l", " ", "o", "f",
                   " ", "F", "r", "a", "n", "c", "e", "?">>

MockPrompts == {PromptPlain, PromptStructured}
MockQuestions == {b, CapitalQuestion}

\* (output, reference, question) of the Mock Judge calls: two with the same
\* output and reference, one of them echoing the question
MockArguments == {<<<<>>, b, b>>, <<b, aaa, b>>, <<b, aaa, <<>>>>}

\* every text the calls hash
HashedTexts == MockQuestions \cup {a[1] \o a[2] : a \in MockArguments}

\* the salt is drawn when the process starts and fixes the hash of each text
ProcessHashValues == {0, 5, HashModulus + 5}

InitMock ==
    /\ evaluator = LLMEvaluatorInit(None, None, TRUE)
    /\ hashes \in [HashedTexts -> ProcessHashValues]
    /\ rng = Unseeded
    /\ judge_log = <<>>
    /\ runner = NoObject
    /\ files = NoFiles
    /\ gen_log = <<>>
    /\ observed = <<>>
    /\ call = [fn |-> "none"]
    /\ ret = NotReturned

MockEvaluate ==
    /\ Len(observed) < MaxCalls
    /\ \E a \in MockArguments :
          /\ call' = [fn |-> "_mock_evaluate", output |-> a[1], reference |-> a[2],
                      question |-> a[3]]
          /\ mock_evaluate(a[1], a[2], a[3])
    /\ UNCHANGED <<runner, files, gen_log, evaluator, judge_log>>

GenerateMockResponse ==
    /\ Len(observed) < MaxCalls
    /\ \E prompt \in MockPrompts, question \in MockQuestions :
          /\ call' = [fn |-> "_generate_mock_response", prompt |-> prompt,
                      question |-> question, context |-> <<>>]
          /\ generate_mock_response(prompt, question, <<>>)
    /\ UNCHANGED <<runner, files, gen_log, evaluator, judge_log>>

NextMock == MockEvaluate \/ GenerateMockResponse

SpecMock == InitMock /\ [][NextMock]_vars

SameArguments(e1, e2) ==
    /\ e1.output = e2.output
    /\ e1.reference = e2.reference
    /\ e1.question = e2.question

\* C5: two calls of _mock_evaluate with the same (output, reference,
\* question) return the same accuracy, faithfulness and completeness,
\* whatever calls of the Mock Judge or of the mock generation were made
\* before or between them.
C5_MockJudgeDeterministic ==
    \A i, j \in 1..Len(observed) :
        (/\ observed[i].fn = "_mock_evaluate"
         /\ observed[j].fn = "_mock_evaluate"
         /\ SameArguments(observed[i], observed[j])) =>
            observed[i].scores = observed[j].scores

\* The same Mock Judge call made first and third, with a mock generation for
\* a high-quality prompt (which seeds the generator from another text and
\* draws twice) between them.
C5_Witness ==
    /\ Len(observed) = 3
    /\ observed[1].fn = "_mock_evaluate"
    /\ observed[2].fn = "_generate_mock_response"
    /\ observed[2].prompt = PromptStructured
    /\ observed[2].question = CapitalQuestion
    /\ observed[3].fn = "_mock_evaluate"
    /\ SameArguments(observed[1], observed[3])
    /\ observed[1].scores = observed[3].scores
    /\ hashes[CapitalQuestion] # hashes[observed[1].output \o observed[1].reference]

-----------------------------------------------------------------------------
(* The Mock Judge called on several outputs for one reference and question *)
(* in one process.                                                         *)

PairCalls == 2     \* Mock Judge calls compared with each other

SampleQuestion == CapitalQuestion
SampleReference == <<"P", "a", "r", "i", "s">>
SampleOutputGood == <<"P", "a", "r", "i", "s", " ", "i", "s", " ", "t", "h",
    "e", " ", "c", "a", "p", "i", "t", "a", "l", " ", "o", "f", " ", "F", "r",
    "a", "n", "c", "e", ".">>
SampleOutputBad == <<"I", " ", "d", "o", "n", "'", "t", " ", "k", "n", "o",
    "w", ".">>
SampleOutputs == {SampleOutputGood, SampleOutputBad}

InitFixture ==
    /\ evaluator = LLMEvaluatorInit(None, None, TRUE)
    /\ hashes \in [{o \o SampleReference : o \in SampleOutputs} -> HashValues]
    /\ rng = Unseeded
    /\ judge_log = <<>>
    /\ runner = NoObject
    /\ files = NoFiles
    /\ gen_log = <<>>
    /\ observed = <<>>
    /\ call = [fn |-> "none", reference |-> SampleReference,
               question |-> SampleQuestion]
    /\ ret = NotReturned

\* one more call of _mock_evaluate for the reference and question of the run
MockEvaluateOutput(outputs) ==
    /\ Len(observed) < PairCalls
    /\ \E o \in outputs : mock_evaluate(o, call.reference, call.question)
    /\ UNCHANGED <<runner, files, gen_log, evaluator, judge_log, call>>

MockEvaluateSample == MockEvaluateOutput(SampleOutputs)

NextFixture == MockEvaluateSample

SpecFixture == InitFixture /\ [][NextFixture]_vars

\* C13: for reference "Paris" and the question about the capital of France,
\* the Mock Judge's accuracy and completeness for "Paris is the capital of
\* France." are strictly greater than for "I don't know.", whatever jitter
\* the two calls draw.
C13_GoodOutputBeatsBad ==
    \A i, j \in 1..Len(observed) :
        (/\ observed[i].output = SampleOutputGood
         /\ observed[j].output = SampleOutputBad
         /\ observed[i].reference = SampleReference
         /\ observed[j].reference = SampleReference
         /\ observed[i].question = SampleQuestion
         /\ observed[j].question = SampleQuestion) =>
            /\ RLt(observed[j].scores.accuracy, observed[i].scores.accuracy)
            /\ RLt(observed[j].scores.completeness,
                observed[i].scores.completeness)

\* The good output judged with every jitter at its lowest and the bad one
\* with every jitter at its highest: 0.574 against 0.558 for accuracy, 0.8
\* against 0.5 for completeness.
C13_Witness ==
    /\ Len(observed) = 2
    /\ observed[1].output = SampleOutputGood
    /\ observed[2].output = SampleOutputBad
    /\ hashes[SampleOutputGood \o SampleReference] = 0
    /\ hashes[SampleOutputBad \o SampleReference] = Power(JitterSteps + 1,
        3) - 1
    /\ observed[1].scores.completeness = Rat(8, 10)
    /\ observed[2].scores.completeness = Rat(5, 10)
    /\ RLt(observed[2].scores.accuracy, observed[1].scores.accuracy)

OrderReferences == {<<"a", "a", "a", " ", "b">>, <<"a", "a", "a", " ", "b",
    "b", " ", "c">>}
OrderOutputs == {<<"b">>, <<"c">>, <<"c", "c", "c", "c", "c">>, <<"A", "a",
    "a", " ", "B", "b">>}
OrderQuestions == {<<>>, b}

\* hash values that make every jitter lowest, every jitter highest, and (one
\* beyond the modulus) the completeness jitter alone differ from the lowest
OrderHashValues ==
    {0, Power(JitterSteps + 1, 3) - 1, HashModulus + Power(JitterSteps + 1,
        2)}

InitOrder ==
    /\ evaluator = LLMEvaluatorInit(None, None, TRUE)
    /\ rng = Unseeded
    /\ judge_log = <<>>
    /\ runner = NoObject
    /\ files = NoFiles
    /\ gen_log = <<>>
    /\ observed = <<>>
    /\ \E r \in OrderReferences, q \in OrderQuestions :
          /\ call = [fn |-> "none", reference |-> r, question |-> q]
          /\ hashes \in [{o \o r : o \in OrderOutputs} -> OrderHashValues]
    /\ ret = NotReturned

MockEvaluateOrder == MockEvaluateOutput(OrderOutputs)

NextOrder == MockEvaluateOrder

SpecOrder == InitOrder /\ [][NextOrder]_vars

\* The words of a text, lowercased: the stretches of non-whitespace
\* characters bounded by whitespace or the ends.
WordsOf(s) ==
    {[k \in 1..(ij[2] - ij[1] + 1) |-> LowerChar(s[ij[1] + k - 1])] : ij \in
        {ij \in (1..Len(s)) \X (1..Len(s)) :
            /\ ij[1] <= ij[2]
            /\ \A k \in ij[1]..ij[2] : s[k] \notin Whitespace
            /\ (ij[1] = 1 \/ s[ij[1] - 1] \in Whitespace)
            /\ (ij[2] = Len(s) \/ s[ij[2] + 1] \in Whitespace)}}

\* the share of the reference's words found in the output
OverlapRatio(e) ==
    IF WordsOf(e.reference) = {} THEN Zero
    ELSE Rat(Cardinality(WordsOf(e.reference) \cap WordsOf(e.output)),
             Cardinality(WordsOf(e.reference)))

\* the draw behind the completeness jitter of a recorded call
CompletenessDraw(e) ==
    Random(Advance(Seed(rng, hashes[e.output \o e.reference] % HashModulus),
        2))

HigherOverlap(i, j) ==
    /\ observed[i].reference = observed[j].reference
    /\ observed[i].question = observed[j].question
    /\ RLt(OverlapRatio(observed[j]), OverlapRatio(observed[i]))

\* C14 as stated: for a fixed reference and question, an output with a higher
\* word-overlap ratio with the reference gets accuracy and completeness no
\* lower.
C14_OverlapOrdering_AsStated ==
    \A i, j \in 1..Len(observed) :
        HigherOverlap(i, j) =>
            /\ RLe(observed[j].scores.accuracy, observed[i].scores.accuracy)
            /\ RLe(observed[j].scores.completeness,
                observed[i].scores.completeness)

\* C14 as amended: for a fixed reference and question, an output with a
\* higher word-overlap ratio gets completeness no lower whenever the two
\* calls draw the same completeness jitter.
C14_OverlapOrdering ==
    \A i, j \in 1..Len(observed) :
        (HigherOverlap(i,
            j) /\ CompletenessDraw(observed[i]) = CompletenessDraw(observed[j])) =>
            RLe(observed[j].scores.completeness,
                observed[i].scores.completeness)

\* "Aaa Bb" (two of three reference words) and "c" (one of three) judged
\* against "aaa bb c" with the same jitter: completeness 0.633 against 0.467
C14_Witness ==
    /\ Len(observed) = 2
    /\ observed[1].output = <<"A", "a", "a", " ", "B", "b">>
    /\ observed[2].output = <<"c">>
    /\ observed[1].reference = <<"a", "a", "a", " ", "b", "b", " ", "c">>
    /\ HigherOverlap(1, 2)
    /\ CompletenessDraw(observed[1]) = Zero
    /\ CompletenessDraw(observed[2]) = Zero
    /\ observed[1].scores.completeness = Rat(19, 30)
    /\ observed[2].scores.completeness = Rat(14, 30)

-----------------------------------------------------------------------------
(* EvaluationRunner.__init__ and EvaluationRunner.run_prompt               *)

\* EvaluationRunner.__init__ with OPENAI_API_KEY = env_key: lines 35-41
EvaluationRunnerInit(env_key, OPENAI_AVAILABLE) ==
    [api_key |-> env_key,
     model |-> "gpt-3.5-turbo",
     client |-> IF Truthy(env_key) /\ OPENAI_AVAILABLE THEN "OpenAI" ELSE None]

\* str.replace(old, new) for a non-empty old: the occurrences found from the
\* left, none overlapping another
RECURSIVE Replace(_, _, _)
Replace(s, old, new) ==
    IF Len(s) < Len(old) THEN s
    ELSE IF StartsWith(s, old)
         THEN new \o Replace(SubSeq(s, Len(old) + 1, Len(s)), old, new)
         ELSE <<Head(s)>> \o Replace(Tail(s), old, new)

PlaceholderQuestion == <<"{", "q", "u", "e", "s", "t", "i", "o", "n", "}">>
PlaceholderContext == <<"{", "c", "o", "n", "t", "e", "x", "t", "}">>

\* full_prompt: lines 91-92
Render(prompt_template, question, context) ==
    Replace(Replace(prompt_template, PlaceholderQuestion, question),
            PlaceholderContext, context)

\* What the generation model does with one request: the call raises, answers
\* with no choices, with a message without content, or with a text.
ErrorTimeout == <<"R", "e", "q", "u", "e", "s", "t", " ", "t", "i", "m", "e",
    "d", " ", "o", "u", "t", ".">>
ErrorConnection == <<"C", "o", "n", "n", "e", "c", "t", "i", "o", "n", " ",
    "e", "r", "r", "o", "r", ".">>
ErrorIndex == <<"l", "i", "s", "t", " ", "i", "n", "d", "e", "x", " ", "o",
    "u", "t", " ", "o", "f", " ", "r", "a", "n", "g", "e">>
ErrorAttribute == <<"'", "N", "o", "n", "e", "T", "y", "p", "e", "'", " ",
    "o", "b", "j", "e", "c", "t", " ", "h", "a", "s", " ", "n", "o", " ", "a",
    "t", "t", "r", "i", "b", "u", "t", "e", " ", "'", "s", "t", "r", "i", "p",
    "'">>

GenFailures ==
    {[kind |-> "raises", message |-> ErrorTimeout],
     [kind |-> "raises", message |-> ErrorConnection],
     [kind |-> "no_choices"],
     [kind |-> "no_content"]}

GenTexts == {<<" ", "A", "a", "a", " ">>, b}

GenOutcomes == GenFailures \cup {[kind |-> "text",
    text |-> t] : t \in GenTexts}

\* the body of the try block of run_prompt: lines 99-106
GenerateLive(outcome) ==
    CASE outcome.kind = "raises" -> Raised(outcome.message)
      [] outcome.kind = "no_choices" -> Raised(ErrorIndex)
      [] outcome.kind = "no_content" -> Raised(ErrorAttribute)
      [] outcome.kind = "text" -> Returned(Strip(outcome.text))

ErrorPrefix == <<"E", "r", "r", "o", "r", " ", "g", "e", "n", "e", "r", "a",
    "t", "i", "n", "g", " ", "r", "e", "s", "p", "o", "n", "s", "e", ":",
    " ">>

\* a slip: the failure of the generation is passed on to the caller
ExceptGenerationMissing(r) == r

\* except Exception as e: return f"Error generating response: {str(e)}"
ExceptGeneration(r) ==
    IF r.kind = "raise" THEN Returned(ErrorPrefix \o r.error) ELSE r

GenRequest(prompt_template, question, context, outcome) ==
    [model |-> runner.model,
     content |-> Render(prompt_template, question, context),
     outcome |-> outcome]

TemplateBoth == <<"Q", ":", " ", "{", "q", "u", "e", "s", "t", "i", "o", "n",
    "}", " ", "C", ":", " ", "{", "c", "o", "n", "t", "e", "x", "t", "}">>
TemplateTwice == <<"{", "n", "a", "m", "e", "}", " ", "{", "q", "u", "e", "s",
    "t", "i", "o", "n", "}", "{", "q", "u", "e", "s", "t", "i", "o", "n",
    "}">>
TemplateNested == <<"{", "c", "o", "n", "{", "q", "u", "e", "s", "t", "i",
    "o", "n", "}", "t", "e", "x", "t", "}">>
TemplatePlain == <<"A", "n", "s", "w", "e", "r", ".">>

RenderTemplates ==
    {PlaceholderQuestion, TemplateBoth, TemplateTwice, TemplateNested,
        TemplatePlain, <<>>}
RenderQuestions == {<<>>, b, JoinWords(<<Aaa, b>>), PlaceholderContext}
RenderContexts == {<<>>, <<"c">>, PlaceholderQuestion}

InitRender ==
    /\ \E k \in ApiKeys, a \in BOOLEAN :
          /\ runner = EvaluationRunnerInit(k, a)
          /\ evaluator = LLMEvaluatorInit(k, k, a)
    /\ files = NoFiles
    /\ gen_log = <<>>
    /\ hashes = <<>>
    /\ rng = Unseeded
    /\ judge_log = <<>>
    /\ observed = <<>>
    /\ call \in {[fn |-> "run_prompt", prompt_template |-> t, question |-> q,
                  context |-> c] :
                    t \in RenderTemplates, q \in RenderQuestions,
                        c \in RenderContexts}
    /\ ret = NotReturned

\* run_prompt without a client: lines 94-96
RunPromptMock ==
    /\ call.fn = "run_prompt"
    /\ ret = NotReturned
    /\ ~Truthy(runner.client)
    /\ generate_mock_response(call.prompt_template, call.question,
        call.context)
    /\ UNCHANGED <<runner, files, gen_log, evaluator, judge_log, call>>

\* run_prompt with a client: lines 98-110
RunPromptLive ==
    /\ call.fn = "run_prompt"
    /\ ret = NotReturned
    /\ Truthy(runner.client)
    /\ \E outcome \in GenOutcomes :
          /\ gen_log' = Append(gen_log, GenRequest(call.prompt_template,
              call.question,
                                                   call.context, outcome))
          /\ ret' = ExceptGeneration(GenerateLive(outcome))
    /\ UNCHANGED <<runner, files, evaluator, hashes, rng, judge_log, observed,
        call>>

NextRender == RunPromptMock \/ RunPromptLive

SpecRender == InitRender /\ [][NextRender]_vars

\* The template with its placeholders replaced in one pass from the left:
\* what was inserted is not looked at again.
RECURSIVE Substitute(_, _, _)
Substitute(t, question, context) ==
    IF t = <<>> THEN <<>>
    ELSE IF StartsWith(t, PlaceholderQuestion)
         THEN question \o Substitute(SubSeq(t, Len(PlaceholderQuestion) + 1,
             Len(t)),
                                     question, context)
    ELSE IF StartsWith(t, PlaceholderContext)
         THEN context \o Substitute(SubSeq(t, Len(PlaceholderContext) + 1,
             Len(t)),
                                    question, context)
    ELSE <<Head(t)>> \o Substitute(Tail(t), question, context)

\* C19: the prompt sent to the generation model is the template with every
\* {question} replaced by the question and every {context} by the context,
\* each inserted verbatim and everything else left as it was; run_prompt does
\* not raise.
C19_TemplateRendering ==
    /\ (call.fn = "run_prompt" => ret.kind # "raise")
    /\ \A i \in 1..Len(gen_log) :
          call.fn = "run_prompt" =>
              gen_log[i].content =
                  Substitute(call.prompt_template, call.question,
                      call.context)

-----------------------------------------------------------------------------
(* The mock generation called on several templates for one question in one *)
(* process.                                                                *)

LengthThreshold == 150

\* templates of every heuristic quality from 0 to 7
TierPrompts ==
    {PromptPlain,
     <<"{", "c", "o", "n", "t", "e", "x", "t", "}", " ", "{", "q", "u", "e",
         "s", "t", "i", "o", "n", "}">>,
     <<"B", "e", " ", "P", "r", "e", "c", "i", "s", "e", ":", " ", "{", "q",
         "u", "e", "s", "t", "i", "o", "n", "}">>,
     [i \in 1..(LengthThreshold + 1) |-> "x"],
     <<"T", "h", "i", "n", "k", ".", " ", "{", "q", "u", "e", "s", "t", "i",
         "o", "n", "}">>,
     <<"*", "*", "{", "q", "u", "e", "s", "t", "i", "o", "n", "}", "*", "*">>,
     <<"S", "t", "e", "p", " ", "1", ":", " ", "b", "e", " ", "a", "c", "c",
         "u", "r", "a", "t", "e", ".", " ", "{", "q", "u", "e", "s", "t", "i",
         "o", "n", "}">>,
     <<"#", "#", "#", " ", "T", "h", "i", "n", "k", ":", " ", "{", "q", "u",
         "e", "s", "t", "i", "o", "n", "}">>,
     PromptStructured,
     <<"#", "#", "#", " ", "T", "h", "i", "n", "k", ",", " ", "b", "e", " ",
         "a", "c", "c", "u", "r", "a", "t", "e", ".", " ", "{", "c", "o", "n",
         "t", "e", "x", "t", "}">> \o [i \in 1..LengthThreshold |-> " "]}

TierQuestions == {b, CapitalQuestion}

\* hash values that choose each prefix and each suffix, one beyond the modulus
TierHashValues ==
    {0, JitterSteps + 2, 2 * (JitterSteps + 2), HashModulus + 1}

InitTiers ==
    /\ \E q \in TierQuestions :
          /\ call = [fn |-> "none", question |-> q]
          /\ hashes \in [{q} -> TierHashValues]
    /\ runner = EvaluationRunnerInit(None, TRUE)
    /\ evaluator = LLMEvaluatorInit(None, None, TRUE)
    /\ files = NoFiles
    /\ gen_log = <<>>
    /\ rng = Unseeded
    /\ judge_log = <<>>
    /\ observed = <<>>
    /\ ret = NotReturned

\* one more call of _generate_mock_response for the question of the run
GenerateForPrompt ==
    /\ Len(observed) < PairCalls
    /\ \E prompt \in TierPrompts : generate_mock_response(prompt,
        call.question, <<>>)
    /\ UNCHANGED <<runner, files, gen_log, evaluator, judge_log, call>>

NextTiers == GenerateForPrompt

SpecTiers == InitTiers /\ [][NextTiers]_vars

Indicator(cond, points) == IF cond THEN points ELSE 0

\* the heuristic quality score of a template, as the claim counts it
ClaimedQuality(prompt) ==
    LET lowered == [i \in 1..Len(prompt) |-> LowerChar(prompt[i])]
    IN  Indicator(Contains(lowered, Text_step) \/ Contains(lowered,
        Text_think), 2)
        + Indicator(Contains(lowered, Text_accurate) \/ Contains(lowered,
            Text_precise), 1)
        + Indicator(Contains(lowered, Text_context), 1)
        + Indicator(Len(prompt) > LengthThreshold, 1)
        + Indicator(Contains(prompt, Text_hashes) \/ Contains(prompt,
            Text_stars), 2)

\* the text up to its first whitespace character
FirstWord(s) ==
    IF \E i \in 1..Len(s) : s[i] \in Whitespace
    THEN SubSeq(s, 1, Least({i \in 1..Len(s) : s[i] \in Whitespace}) - 1)
    ELSE s

\* C20: without a generation client and for a fixed question, the mock
\* output is never shorter for a template of higher heuristic quality score:
\* below 2 it is the first word of the answer, at 2 or 3 the full answer, from
\* 4 on the answer wrapped in a prefix and an optional suffix.
C20_MockOutputTiers ==
    \A i \in 1..Len(observed) :
        LET e == observed[i]
            q == ClaimedQuality(e.prompt)
            answer == BaseAnswer(e.question)
        IN  /\ q < 2 => e.response = FirstWord(answer)
            /\ q \in {2, 3} => e.response = answer
            /\ q >= 4 =>
                  \E prefix \in Range(Prefixes), suffix \in Range(Suffixes) :
                      /\ prefix # <<>>
                      /\ e.response = prefix \o answer \o suffix
            /\ \A j \in 1..Len(observed) :
                  (observed[j].question = e.question
                     /\ ClaimedQuality(observed[j].prompt) >= q) =>
                        Len(observed[j].response) >= Len(e.response)

\* For the question "b": the plain template (score 0) gives "This", the
\* structured one (score 5) the whole mock answer behind a prefix.
C20_Witness ==
    /\ Len(observed) = 2
    /\ call.question = b
    /\ observed[1].prompt = PromptPlain
    /\ observed[2].prompt = PromptStructured
    /\ ClaimedQuality(observed[1].prompt) = 0
    /\ ClaimedQuality(observed[2].prompt) = 5
    /\ observed[1].response = <<"T", "h", "i", "s">>
    /\ Len(observed[2].response) > Len(MockAnswer)

-----------------------------------------------------------------------------
(* EvaluationRunner.run_evaluation and evaluate_prompt_on_dataset.         *)
(*                                                                         *)
(* `call` is the frame of run_evaluation: its arguments, its position pc   *)
(* and its locals.  The result store is the file results/scores.json: it   *)
(* is absent, or holds the items written to it so far and is a JSON        *)
(* document (closed) once the closing bracket has been written.            *)

MaxPrompts == 2    \* prompt names handed to run_evaluation

DatasetName == "qa_test.json"

StoreAbsent == [kind |-> "absent"]
StoreFile(items, closed) == [kind |-> "file", items |-> items,
    closed |-> closed]

\* the prompt files of the prompts directory, as written on disk
PromptFiles ==
    [n \in {PromptNames[1], PromptNames[2]} |->
        IF n = PromptNames[1] THEN PromptPlain ELSE PromptStructured \o <<"\n">>]

\* the test cases of the dataset file; the first has no context
Dataset ==
    <<[question |-> b, reference_answer |-> b],
      [question |-> JoinWords(<<Aaa, b>>), reference_answer |-> aaa,
       context |-> <<"c">>]>>

\* what an earlier run left in the store
EarlierResult ==
    [prompt_name |-> PromptNames[3], dataset_name |-> DatasetName,
     test_cases |-> <<>>, aggregate_scores |-> <<>>]

\* file systems: at most one input file is absent, the store is absent or
\* holds an earlier run's array
FileSystems ==
    {[prompts |-> [n \in (DOMAIN PromptFiles) \ gone |-> PromptFiles[n]],
      datasets |-> [n \in {DatasetName} \ gone |-> Dataset],
      store |-> s] :
        gone \in {{}} \cup {{n} : n \in DOMAIN PromptFiles \cup {DatasetName}},
        s \in {StoreAbsent, StoreFile(<<EarlierResult>>, TRUE)}}

\* a slip: the default of the prompt names lists no file
OrderingsOfNothing(S) == {<<>>}

\* the orders in which glob may list a set of files
Orderings(S) ==
    {s \in [1..Cardinality(S) -> S] : \A i,
        j \in 1..Cardinality(S) : s[i] = s[j] => i = j}

\* what the embedding model answers for two texts: fixed for the process
SimilarityValues == {Rat(4, 5)}

\* the salted hash of a text under the salt of the process
RunSalts == {0, 1}
SaltedHash(salt, text) ==
    salt * (HashModulus + 1) + Len(text) * (JitterSteps + 2)

RunQuestions == {Dataset[i].question : i \in 1..Len(Dataset)}

\* every text a run without clients hashes: the questions, and each mock
\* output followed by its reference answer
RunHashedTexts ==
    RunQuestions \cup
    {MockResponse(Strip(PromptFiles[n]), Dataset[i].question,
                  GenerateSeeded(Unseeded, SaltedHash(salt,
                      Dataset[i].question)))
        \o Dataset[i].reference_answer :
            n \in DOMAIN PromptFiles, i \in 1..Len(Dataset),
                salt \in RunSalts}

\* the prompt_names argument: None, or a list of names
NoPromptNames == [none |-> TRUE]
PromptList(names) == [list |-> names]

RunFrame(prompt_names, similarity) ==
    [fn |-> "run_evaluation",
     prompt_names |-> prompt_names,
     dataset_name |-> DatasetName,
     similarity |-> similarity,
     pc |-> "start",
     names |-> <<>>,
     p |-> 1,
     prompt_template |-> <<>>,
     dataset |-> <<>>,
     test_cases |-> <<>>,
     all_results |-> <<>>]

InitRun ==
    /\ \E k \in ApiKeys, a \in BOOLEAN :
          /\ runner = EvaluationRunnerInit(k, a)
          /\ evaluator = LLMEvaluatorInit(k, k, a)
    /\ files \in FileSystems
    /\ gen_log = <<>>
    /\ hashes \in {[t \in RunHashedTexts |-> SaltedHash(salt,
        t)] : salt \in RunSalts}
    /\ rng = Unseeded
    /\ judge_log = <<>>
    /\ observed = <<>>
    /\ call \in {RunFrame(names, sim) :
                    names \in {NoPromptNames} \cup
                        {PromptList(l) : l \in SeqsUpTo(DOMAIN PromptFiles, MaxPrompts)},
                    sim \in SimilarityValues}
    /\ ret = NotReturned

\* run_evaluation, lines 264-268: the prompt names default to every prompt
\* file, in the order glob lists them
StartRun ==
    /\ call.fn = "run_evaluation"
    /\ call.pc = "start"
    /\ \E names \in (IF call.prompt_names = NoPromptNames
                     THEN Orderings(DOMAIN files.prompts)
                     ELSE {call.prompt_names.list}) :
          call' = [call EXCEPT !.names = names,
                               !.pc = IF names = <<>> THEN "save" ELSE "load"]
    /\ UNCHANGED <<runner, files, gen_log, evaluator, hashes, rng, judge_log,
                   observed, ret>>

\* load_prompt: lines 66-70
LoadPrompt(prompt_file) ==
    IF prompt_file \in DOMAIN files.prompts
    THEN Returned(Strip(files.prompts[prompt_file]))
    ELSE Raised("FileNotFoundError")

\* load_dataset: lines 72-76
LoadDataset(dataset_file) ==
    IF dataset_file \in DOMAIN files.datasets
    THEN Returned(files.datasets[dataset_file])
    ELSE Raised("FileNotFoundError")

\* an exception leaves run_evaluation: nothing after it runs
RunRaises(r) ==
    /\ ret' = r
    /\ call' = [call EXCEPT !.pc = "raised"]

\* evaluate_prompt_on_dataset, lines 199-206: load the prompt and the dataset
LoadInputs ==
    /\ call.fn = "run_evaluation"
    /\ call.pc = "load"
    /\ LET prompt == LoadPrompt(call.names[call.p])
           dataset == LoadDataset(call.dataset_name)
       IN  IF prompt.kind = "raise" THEN RunRaises(prompt)
           ELSE IF dataset.kind = "raise" THEN RunRaises(dataset)
           ELSE /\ call' = [call EXCEPT !.prompt_template = prompt.value,
                                        !.dataset = dataset.value,
                                        !.test_cases = <<>>,
                                        !.pc = "cases"]
                /\ ret' = ret
    /\ UNCHANGED <<runner, files, gen_log, evaluator, hashes, rng, judge_log,
                   observed>>

\* what the two external models do for one test case of a run: both answer,
\* or one of them fails; without clients neither is called
GenAnswers == [kind |-> "text", text |-> <<" ", "A", "a", "a", " ">>]
GenTimesOut == [kind |-> "raises", message |-> ErrorTimeout]
JudgeAnswers == [kind |-> "text", text |-> WellFormedExample]
JudgeTimesOut == [kind |-> "raises", error |-> "APITimeoutError"]
NoOutcome == [kind |-> "not called"]

RunCaseOutcomes ==
    {[gen |-> NoOutcome, judge |-> NoOutcome],
     [gen |-> GenAnswers, judge |-> JudgeAnswers],
     [gen |-> GenTimesOut, judge |-> JudgeAnswers],
     [gen |-> GenAnswers, judge |-> JudgeTimesOut]}

\* a slip: the scores of the judge are not merged in
ScoresOfMetricsOnly(semantic_sim, model_output, reference, llm_scores) ==
    [semantic_similarity |-> semantic_sim,
     exact_match |-> exact_match(model_output, reference),
     f1_score |-> token_overlap_f1(model_output, reference)]

\* the "scores" of a test result: lines 234-239
ScoresOf(semantic_sim, model_output, reference, llm_scores) ==
    LET own == [semantic_similarity |-> semantic_sim,
                exact_match |-> exact_match(model_output, reference),
                f1_score |-> token_overlap_f1(model_output, reference)]
    IN  [k \in DOMAIN own \cup DOMAIN llm_scores |->
            IF k \in DOMAIN llm_scores THEN llm_scores[k] ELSE own[k]]

TestResult(test_case, model_output, scores) ==
    [question |-> test_case.question,
     reference_answer |-> test_case.reference_answer,
     model_output |-> model_output,
     scores |-> scores]

\* the generator after _generate_mock_response seeded with g
AfterGenerate(prompt, g) == IF QualityScore(prompt) >= 4 THEN Advance(g,
    2) ELSE g

\* evaluate_prompt_on_dataset, lines 209-244: one test case is rendered,
\* generated and scored
RunTestCase ==
    /\ call.fn = "run_evaluation"
    /\ call.pc = "cases"
    /\ Len(call.test_cases) < Len(call.dataset)
    /\ \E oc \in {o \in RunCaseOutcomes :
                       /\ Truthy(runner.client) <=> o.gen # NoOutcome
                       /\ Truthy(evaluator.client) <=> o.judge # NoOutcome} :
          LET gen == oc.gen
              judge == oc.judge
              test_case == call.dataset[Len(call.test_cases) + 1]
              question == test_case.question
              reference == test_case.reference_answer
              context == Get(test_case, "context", <<>>)
              live_gen == Truthy(runner.client)
              live_judge == Truthy(evaluator.client)
              g1 == GenerateSeeded(rng, hashes[question])
              generated ==
                  IF live_gen THEN ExceptGeneration(GenerateLive(gen))
                  ELSE Returned(MockResponse(call.prompt_template, question,
                      g1))
              rng1 == IF live_gen THEN rng ELSE AfterGenerate(call.prompt_template,
                  g1)
              model_output == generated.value
              g2 == MockSeeded(rng1, hashes[model_output \o reference])
              judged ==
                  IF live_judge THEN ExceptException(TryBody(judge))
                  ELSE Returned(MockScores(model_output, reference, question,
                      g2))
              rng2 == IF live_judge THEN rng1 ELSE Advance(g2, 3)
          IN  /\ gen_log' = IF live_gen
                            THEN Append(gen_log,
                                GenRequest(call.prompt_template, question,
                                                            context, gen))
                            ELSE gen_log
              /\ IF generated.kind = "raise"
                 THEN /\ RunRaises(generated)
                      /\ UNCHANGED <<rng, judge_log>>
                 ELSE /\ rng' = rng2
                      /\ judge_log' = IF live_judge THEN Append(judge_log,
                          judge)
                                      ELSE judge_log
                      /\ IF judged.kind = "raise"
                         THEN RunRaises(judged)
                         ELSE /\ ret' = ret
                              /\ call' = [call EXCEPT !.test_cases =
                                    Append(@, TestResult(test_case,
                                        model_output,
                                        ScoresOf(call.similarity,
                                            model_output, reference,
                                                 judged.value)))]
    /\ UNCHANGED <<runner, files, evaluator, hashes, observed>>

\* a slip: the newest result is put in front of the earlier ones
AppendResultInFront(all_results, result) == <<result>> \o all_results

\* all_results.append(result): line 272
AppendResult(all_results, result) == Append(all_results, result)

\* evaluate_prompt_on_dataset, lines 246-250, and run_evaluation, line 272:
\* the prompt's scores are aggregated and its result joins the batch
AggregatePrompt ==
    /\ call.fn = "run_evaluation"
    /\ call.pc = "cases"
    /\ Len(call.test_cases) = Len(call.dataset)
    /\ LET all_scores == [i \in 1..Len(call.test_cases) |-> call.test_cases[i].scores]
           result == [prompt_name |-> call.names[call.p],
                      dataset_name |-> call.dataset_name,
                      test_cases |-> call.test_cases,
                      aggregate_scores |-> aggregate_scores(all_scores)]
       IN  /\ call' = [call EXCEPT !.all_results = AppendResult(@, result),
                                   !.test_cases = <<>>,
                                   !.p = @ + 1,
                                   !.pc = IF call.p < Len(call.names) THEN "load"
                                          ELSE "save"]
           /\ observed' = Append(observed,
               [fn |-> "evaluate_prompt_on_dataset",
                                            prompt_name |-> call.names[call.p]])
    /\ UNCHANGED <<runner, files, gen_log, evaluator, hashes, rng, judge_log,
        ret>>

\* run_evaluation, line 276: open(output_file, 'w') creates or empties the
\* file
OpenStore ==
    /\ call.fn = "run_evaluation"
    /\ call.pc = "save"
    /\ files' = [files EXCEPT !.store = StoreFile(<<>>, FALSE)]
    /\ call' = [call EXCEPT !.pc = "dump"]
    /\ observed' = Append(observed, [fn |-> "open", mode |-> "w"])
    /\ UNCHANGED <<runner, gen_log, evaluator, hashes, rng, judge_log, ret>>

\* run_evaluation, line 277: json.dump writes the array piece by piece
DumpItem ==
    /\ call.fn = "run_evaluation"
    /\ call.pc = "dump"
    /\ Len(files.store.items) < Len(call.all_results)
    /\ files' = [files EXCEPT !.store.items =
                    Append(@, call.all_results[Len(files.store.items) + 1])]
    /\ UNCHANGED <<runner, gen_log, evaluator, hashes, rng, judge_log,
        observed, call,
                   ret>>

\* the closing bracket is written and the file closed; run_evaluation returns
CloseStore ==
    /\ call.fn = "run_evaluation"
    /\ call.pc = "dump"
    /\ Len(files.store.items) = Len(call.all_results)
    /\ files' = [files EXCEPT !.store.closed = TRUE]
    /\ call' = [call EXCEPT !.pc = "done"]
    /\ ret' = Returned(None)
    /\ UNCHANGED <<runner, gen_log, evaluator, hashes, rng, judge_log,
        observed>>

NextRun ==
    \/ StartRun
    \/ LoadInputs
    \/ RunTestCase
    \/ AggregatePrompt
    \/ OpenStore
    \/ DumpItem
    \/ CloseStore

SpecRun == InitRun /\ [][NextRun]_vars

\* the test cases the run has processed so far, in order: those of the prompts
\* already aggregated, then those of the prompt under evaluation
RECURSIVE CasesOf(_)
CasesOf(results) ==
    IF results = <<>> THEN <<>>
    ELSE Head(results).test_cases \o CasesOf(Tail(results))

ProcessedCases == CasesOf(call.all_results) \o call.test_cases

ScoreNames ==
    {"semantic_similarity", "exact_match", "f1_score", "accuracy",
     "faithfulness", "completeness"}

GenerationFailed(k) == gen_log[k].outcome.kind = "raises"

\* a failed generation is recorded with the error string and all the scores
FailedCasesRecorded ==
    /\ \A k \in 1..Len(gen_log) :
          /\ k <= Len(ProcessedCases)
          /\ GenerationFailed(k) =>
                /\ ProcessedCases[k].model_output =
                      ErrorPrefix \o gen_log[k].outcome.message
                /\ DOMAIN ProcessedCases[k].scores = ScoreNames
    /\ \A i \in 1..Len(call.all_results) :
          Len(call.all_results[i].test_cases) = Len(Dataset)

\* processing a test case leaves the prompt run going, with one more result
CaseKeepsRunning ==
    call.pc = "cases" /\ gen_log' # gen_log =>
        /\ call'.pc = "cases"
        /\ Len(call'.test_cases) = Len(call.test_cases) + 1
        /\ ret' = NotReturned

\* C15: a test case whose generation failed is recorded with the error string
\* as its model_output and with all its scores, every aggregated prompt holds
\* one result per test case of the dataset, and a generation, failed or not,
\* never ends the prompt run: the next test case or the aggregation follows
C15_FailedGenerationContinues ==
    []FailedCasesRecorded /\ [][CaseKeepsRunning]_vars

\* a run that has finished although the generation failed for a test case
\* that was not the last one
C15_Witness ==
    /\ call.pc = "done"
    /\ \E k \in 1..Len(gen_log) :
          /\ GenerationFailed(k)
          /\ k < Len(ProcessedCases)
          /\ ProcessedCases[k].model_output = ErrorPrefix \o ErrorTimeout

\* what the run has done so far: the prompts evaluated, the store opened
Evaluations ==
    SelectSeq(observed, LAMBDA e : e.fn = "evaluate_prompt_on_dataset")

StoreOpenings == SelectSeq(observed, LAMBDA e : e.fn = "open")

\* the prompts are evaluated in the order given and their results kept in
\* that order; the store is opened at most once, after the last evaluation;
\* a finished run leaves one record per requested prompt in the store, in the
\* requested order, and nothing else
EvaluatedInOrderThenSaved ==
    /\ Len(Evaluations) <= Len(call.names)
    /\ Len(call.all_results) = Len(Evaluations)
    /\ \A k \in 1..Len(Evaluations) :
          /\ Evaluations[k].prompt_name = call.names[k]
          /\ call.all_results[k].prompt_name = call.names[k]
    /\ Len(StoreOpenings) <= 1
    /\ Len(StoreOpenings) = 1 <=> call.pc \in {"dump", "done"}
    /\ Len(StoreOpenings) = 1 =>
          /\ observed[Len(observed)].fn = "open"
          /\ Len(Evaluations) = Len(call.names)
    /\ call.pc = "done" =>
          /\ ret = Returned(None)
          /\ files.store = StoreFile(call.all_results, TRUE)
          /\ Len(files.store.items) = Len(call.names)
          /\ \A k \in 1..Len(call.names) :
                /\ files.store.items[k].prompt_name = call.names[k]
                /\ files.store.items[k] # EarlierResult
                /\ Len(files.store.items[k].test_cases) = Len(Dataset)

\* the store is touched by nothing but the write that ends the run
StoreWrittenAtTheEnd ==
    files'.store # files.store =>
        /\ call.pc \in {"save", "dump"}
        /\ Len(Evaluations) = Len(call.names)

\* C16: the prompts of one run_evaluation call are evaluated one after another
\* in the order given, the store is written once, after every prompt has been
\* evaluated and aggregated, and a successful run leaves exactly one record
\* per requested prompt in the store, in the requested order, and nothing of
\* an earlier run
C16_SequentialThenPersistedOnce ==
    []EvaluatedInOrderThenSaved /\ [][StoreWrittenAtTheEnd]_vars

\* a finished run of two different prompts, requested in other than
\* alphabetical order
C16_Witness ==
    /\ call.pc = "done"
    /\ call.prompt_names = PromptList(<<PromptNames[2], PromptNames[1]>>)
    /\ Len(files.store.items) = 2
    /\ files.store.items[1].prompt_name = PromptNames[2]
    /\ files.store.items[2].prompt_name = PromptNames[1]

\* an input of the run is absent: a prompt file of the batch, or the dataset
PromptFileMissing ==
    \E k \in 1..Len(call.names) : call.names[k] \notin DOMAIN files.prompts

DatasetFileMissing == call.dataset_name \notin DOMAIN files.datasets

InputMissing == PromptFileMissing \/ DatasetFileMissing

\* the run neither writes the store nor returns normally
NothingPersisted ==
    /\ call.pc \notin {"dump", "done"}
    /\ ret # Returned(None)

StoreKept == files'.store = files.store

\* C17: when a requested prompt file or the dataset file is absent the run
\* never returns normally and never touches the result store, whatever it had
\* evaluated before
C17_InputMissingPersistsNothing ==
    /\ [](InputMissing => NothingPersisted)
    /\ [][InputMissing => StoreKept]_vars

\* the same for a batch of at least one prompt, where the run ends with the
\* error of the missing file
C17_InputMissingInBatch ==
    /\ [](InputMissing /\ call.names # <<>> =>
            /\ NothingPersisted
            /\ call.pc \in {"load", "cases", "raised"}
            /\ call.pc = "raised" => ret = Raised("FileNotFoundError"))
    /\ [][InputMissing /\ call.names # <<>> => StoreKept]_vars

\* a run that raised for a missing prompt file after it had evaluated an
\* earlier prompt of the batch, the store still holding the earlier run
C17_BatchWitness ==
    /\ call.pc = "raised"
    /\ PromptFileMissing
    /\ Len(call.all_results) = 1
    /\ files.store = StoreFile(<<EarlierResult>>, TRUE)

\* no prompt requested and the dataset absent: the run returns normally and
\* has replaced the store of the earlier run by an empty array
C17_EmptyBatchOverwrites ==
    /\ call.pc = "done"
    /\ call.names = <<>>
    /\ DatasetFileMissing
    /\ files.store = StoreFile(<<>>, TRUE)
    /\ ret = Returned(None)

MaxReads == 2      \* reads of the store by leaderboards during one write

\* the result of a prompt evaluated on a dataset file that holds no test case
EmptyDatasetResult(prompt_name) ==
    [prompt_name |-> prompt_name,
     dataset_name |-> DatasetName,
     test_cases |-> <<>>,
     aggregate_scores |-> aggregate_scores(<<>>)]

\* run_evaluation after its loop, line 274: every prompt of the batch has
\* been evaluated and the store still holds what the earlier run left
SaveFrame(names) ==
    [RunFrame(PromptList(names), Half) EXCEPT
        !.pc = "save",
        !.names = names,
        !.p = Len(names) + 1,
        !.prompt_template =
            IF names = <<>> THEN <<>> ELSE Strip(PromptFiles[names[Len(names)]]),
        !.all_results = [k \in 1..Len(names) |-> EmptyDatasetResult(names[k])]]

InitStore ==
    /\ runner = EvaluationRunnerInit(None, FALSE)
    /\ evaluator = LLMEvaluatorInit(None, None, FALSE)
    /\ \E s \in {StoreAbsent, StoreFile(<<EarlierResult>>, TRUE)} :
          files = [prompts |-> PromptFiles,
                   datasets |-> [n \in {DatasetName} |-> <<>>],
                   store |-> s]
    /\ gen_log = <<>>
    /\ hashes = [t \in RunHashedTexts |-> SaltedHash(0, t)]
    /\ rng = Unseeded
    /\ judge_log = <<>>
    /\ \E names \in SeqsUpTo(DOMAIN PromptFiles, MaxPrompts) :
          /\ call = SaveFrame(names)
          /\ observed = [k \in 1..Len(names) |->
                            [fn |-> "evaluate_prompt_on_dataset",
                             prompt_name |-> names[k]]]
    /\ ret = NotReturned

\* the process is killed while it saves: what it has written so far stays
Crash ==
    /\ call.fn = "run_evaluation"
    /\ call.pc \in {"save", "dump"}
    /\ call' = [call EXCEPT !.pc = "crashed"]
    /\ UNCHANGED <<runner, files, gen_log, evaluator, hashes, rng, judge_log,
                   observed, ret>>

StoreReads == SelectSeq(observed, LAMBDA e : e.fn = "_load_results")

\* Leaderboard._load_results, lines 24-31, called by another request or
\* process: [] without the file, else json.load, which raises on a file that
\* is empty or stops part-way
LoadResultsOf(store) ==
    IF store.kind = "absent" THEN Returned(<<>>)
    ELSE IF store.closed THEN Returned(store.items)
    ELSE Raised("JSONDecodeError")

LoadResults ==
    /\ Len(StoreReads) < MaxReads
    /\ observed' = Append(observed,
                          [fn |-> "_load_results",
                           result |-> LoadResultsOf(files.store)])
    /\ UNCHANGED <<runner, files, gen_log, evaluator, hashes, rng, judge_log,
                   call, ret>>

NextStore ==
    \/ OpenStore
    \/ DumpItem
    \/ CloseStore
    \/ Crash
    \/ LoadResults

SpecStore == InitStore /\ [][NextStore]_vars

\* C18: at every point of the write, a crash included, the store is absent as
\* before, or holds the complete array of the earlier run, or the complete new
\* array, and every reader gets one of these
C18_AtomicStoreWrite ==
    /\ files.store.kind = "file" =>
          /\ files.store.closed
          /\ files.store.items \in {<<EarlierResult>>, call.all_results}
    /\ \A k \in 1..Len(StoreReads) :
          StoreReads[k].result \in
              {Returned(<<>>), Returned(<<EarlierResult>>),
               Returned(call.all_results)}

\* a leaderboard read that failed on the half-written file of a run that
\* then completed its write
C18_ReaderSeesPartialFile ==
    /\ call.pc = "done"
    /\ \E k \in 1..Len(StoreReads) :
          StoreReads[k].result = Raised("JSONDecodeError")

\* a run killed during its write: the array of the earlier run is gone and
\* the file is left incomplete
C18_CrashLosesStore ==
    /\ call.pc = "crashed"
    /\ files.store.kind = "file"
    /\ ~files.store.closed
    /\ files.store.items # call.all_results

-----------------------------------------------------------------------------
(* Leaderboard.get_prompt_comparison                                       *)

\* next((p for p in leaderboard if p["prompt_name"] == name), None)
FirstNamed(leaderboard, name) ==
    LET hits == {i \in 1..Len(leaderboard) : leaderboard[i].prompt_name = name}
    IN  IF hits = {} THEN NoObject
        ELSE leaderboard[CHOOSE i \in hits : \A j \in hits : i <= j]

ComparedMetrics == {"overall_score", "accuracy", "faithfulness"}

ErrorNotFound == [error |-> "One or both prompts not found"]

\* a slip: the differences are taken the other way round
get_prompt_comparison_reversed(results, prompt1, prompt2) ==
    LET leaderboard == get_leaderboard_data(results)
        p1_data == FirstNamed(leaderboard, prompt1)
        p2_data == FirstNamed(leaderboard, prompt2)
    IN  IF p1_data = NoObject \/ p2_data = NoObject THEN ErrorNotFound
        ELSE [prompt1 |-> p1_data,
              prompt2 |-> p2_data,
              differences |->
                  [metric \in ComparedMetrics |->
                      RSub(p2_data[metric], p1_data[metric])]]

\* get_prompt_comparison: lines 111-137; an entry is a non-empty dict, so
\* "not p1_data" is true for None (NoObject) alone
get_prompt_comparison(results, prompt1, prompt2) ==
    LET leaderboard == get_leaderboard_data(results)
        p1_data == FirstNamed(leaderboard, prompt1)
        p2_data == FirstNamed(leaderboard, prompt2)
    IN  IF p1_data = NoObject \/ p2_data = NoObject THEN ErrorNotFound
        ELSE [prompt1 |-> p1_data,
              prompt2 |-> p2_data,
              differences |->
                  [metric \in ComparedMetrics |->
                      RSub(p1_data[metric], p2_data[metric])]]

\* the stored results a comparison reads: up to MaxResults records of two
\* prompt names, a name possibly stored twice
ComparedAggregates ==
    {[accuracy_mean |-> Rat(3, 5)],
     [semantic_similarity_mean |-> Rat(4, 5), accuracy_mean |-> Rat(9, 10),
      faithfulness_mean |-> Rat(7, 10), completeness_mean |-> Rat(3, 5)],
     NoAggregate}

ComparedStores ==
    SeqsUpTo({StoredResult(PromptNames[n], agg) :
                  n \in 1..2, agg \in ComparedAggregates}, MaxResults)

ComparedNames == {PromptNames[n] : n \in 1..3}

InitCompare ==
    \E rs \in ComparedStores, p1 \in ComparedNames, p2 \in ComparedNames :
        Invoke([fn |-> "get_prompt_comparison", results |-> rs,
                prompt1 |-> p1, prompt2 |-> p2])

GetPromptComparison ==
    /\ call.fn = "get_prompt_comparison"
    /\ ret = NotReturned
    /\ Return(get_prompt_comparison(call.results, call.prompt1, call.prompt2))

NextCompare == GetPromptComparison

SpecCompare == InitCompare /\ [][NextCompare]_vars

\* the leaderboard entries of the stored results, and the names they carry
ComparedBoard == get_leaderboard_data(call.results)

OnBoard(name) == \E i \in 1..Len(ComparedBoard) : ComparedBoard[i].prompt_name = name

\* the entry a name stands for: the best ranked one that carries it
EntryOf(name) ==
    ComparedBoard[CHOOSE i \in 1..Len(ComparedBoard) :
        /\ ComparedBoard[i].prompt_name = name
        /\ \A j \in 1..(i - 1) : ComparedBoard[j].prompt_name # name]

Swapped == get_prompt_comparison(call.results, call.prompt2, call.prompt1)

\* C21: get_prompt_comparison returns the error result exactly when one of the
\* two names has no leaderboard entry; otherwise it returns the two entries
\* and, for overall_score, accuracy and faithfulness, the value of the first
\* entry minus that of the second, so that exchanging the names negates every
\* difference
C21_PromptComparison ==
    (call.fn = "get_prompt_comparison" /\ ret # NotReturned) =>
        IF ~OnBoard(call.prompt1) \/ ~OnBoard(call.prompt2)
        THEN ret = Returned(ErrorNotFound)
        ELSE /\ ret.kind = "return"
             /\ "error" \notin DOMAIN ret.value
             /\ ret.value.prompt1 = EntryOf(call.prompt1)
             /\ ret.value.prompt2 = EntryOf(call.prompt2)
             /\ DOMAIN ret.value.differences = ComparedMetrics
             /\ \A m \in ComparedMetrics :
                   /\ ret.value.differences[m] =
                         RSub(EntryOf(call.prompt1)[m],
                             EntryOf(call.prompt2)[m])
                   /\ Swapped.differences[m] =
                         RSub(Zero, ret.value.differences[m])

\* a comparison of two different stored prompts whose scores differ
C21_Witness ==
    /\ call.fn = "get_prompt_comparison"
    /\ ret # NotReturned
    /\ call.prompt1 # call.prompt2
    /\ "differences" \in DOMAIN ret.value
    /\ RLt(Zero, ret.value.differences["overall_score"])
    /\ RLt(Zero, ret.value.differences["faithfulness"])

\* a comparison that names a prompt without an entry, the other one stored
C21_WitnessAbsent ==
    /\ call.fn = "get_prompt_comparison"
    /\ ret = Returned(ErrorNotFound)
    /\ OnBoard(call.prompt1)
    /\ ~OnBoard(call.prompt2)

-----------------------------------------------------------------------------
(* app.py: POST /api/evaluate                                              *)

\* the JSON object of a request: with a "prompts" list, or without the key
RequestBodies ==
    {[other |-> <<>>]} \cup
    {[prompts |-> l] : l \in SeqsUpTo(DOMAIN PromptFiles, MaxPrompts)}

\* the environment of the server process: no API key, or a key and the
\* openai package
Environments ==
    {[api_key |-> None, OPENAI_AVAILABLE |-> FALSE],
     [api_key |-> "sk-test", OPENAI_AVAILABLE |-> TRUE]}

Response(status, body) == [status |-> status, body |-> body]

InitApi ==
    /\ runner = NoObject
    /\ evaluator = NoObject
    /\ files \in FileSystems
    /\ gen_log = <<>>
    /\ hashes = [t \in RunHashedTexts |-> SaltedHash(0, t)]
    /\ rng = Unseeded
    /\ judge_log = <<>>
    /\ observed = <<>>
    /\ \E body \in RequestBodies, env \in Environments :
          call = [fn |-> "api_evaluate", pc |-> "request", body |-> body,
                  env |-> env]
    /\ ret = NotReturned

\* a slip: the selection is not checked before the run
SelectionRejectedNever(selected_prompts) == FALSE

\* if not selected_prompts: line 66
SelectionRejected(selected_prompts) == selected_prompts = <<>>

\* run_evaluation of app.py, lines 63-72: an empty selection is answered at
\* once; otherwise a runner is created and its run_evaluation called
ApiEvaluate ==
    /\ call.fn = "api_evaluate"
    /\ call.pc = "request"
    /\ LET selected_prompts == Get(call.body, "prompts", <<>>)
       IN  IF SelectionRejected(selected_prompts)
           THEN /\ ret' = Returned(Response(400,
                                   [error |-> "No prompts selected"]))
                /\ call' = [call EXCEPT !.pc = "responded"]
                /\ UNCHANGED <<runner, evaluator>>
           ELSE /\ runner' = EvaluationRunnerInit(call.env.api_key,
                                                  call.env.OPENAI_AVAILABLE)
                /\ evaluator' = LLMEvaluatorInit(call.env.api_key,
                                                 call.env.api_key,
                                                 call.env.OPENAI_AVAILABLE)
                /\ call' = RunFrame(PromptList(selected_prompts), Rat(4, 5))
                /\ ret' = ret
    /\ UNCHANGED <<files, gen_log, hashes, rng, judge_log, observed>>

\* lines 74-84: after the run the leaderboard is read from the store and
\* returned; an exception of the run is answered with status 500
ApiRespond ==
    /\ call.fn = "run_evaluation"
    /\ call.pc \in {"done", "raised"}
    /\ ret' = IF call.pc = "raised"
              THEN Returned(Response(500, [error |-> ret.error]))
              ELSE Returned(Response(200,
                       [success |-> TRUE,
                        leaderboard |->
                            get_leaderboard_data(LoadResultsOf(files.store).value)]))
    /\ call' = [call EXCEPT !.pc = "responded"]
    /\ UNCHANGED <<runner, files, gen_log, evaluator, hashes, rng, judge_log,
                   observed>>

NextApi ==
    \/ ApiEvaluate
    \/ StartRun
    \/ LoadInputs
    \/ RunTestCase
    \/ AggregatePrompt
    \/ OpenStore
    \/ DumpItem
    \/ CloseStore
    \/ ApiRespond

SpecApi == InitApi /\ [][NextApi]_vars

\* the request selects no prompt: the list is empty or the key is missing
EmptySelection ==
    /\ call.fn = "api_evaluate"
    /\ Get(call.body, "prompts", <<>>) = <<>>

\* C22: a request to evaluate that selects no prompt is answered with status
\* 400 and an error payload, and nothing is attempted: no runner is created,
\* nothing is evaluated and the result store stays as it was
C22_EmptySelectionRejected ==
    /\ [](EmptySelection =>
            /\ runner = NoObject
            /\ evaluator = NoObject
            /\ observed = <<>>
            /\ gen_log = <<>>
            /\ call.pc = "responded" =>
                  /\ ret.kind = "return"
                  /\ ret.value.status = 400
                  /\ DOMAIN ret.value.body = {"error"})
    /\ [][EmptySelection =>
            /\ files' = files
            /\ call'.fn = "api_evaluate"
            /\ call'.pc = "responded"]_vars

\* an answered request with an empty prompt list, the store of an earlier run
\* still in place
C22_Witness ==
    /\ call.fn = "api_evaluate"
    /\ call.pc = "responded"
    /\ call.body = [prompts |-> <<>>]
    /\ ret = Returned(Response(400, [error |-> "No prompts selected"]))
    /\ files.store = StoreFile(<<EarlierResult>>, TRUE)

-----------------------------------------------------------------------------
(* metrics.py: the lazily loaded embedding model                           *)

MaxThreads == 2       \* threads of the process that score texts
MaxCalculators == 2   \* MetricsCalculator objects created in the process

Threads == 1..MaxThreads

NoCalculator == 0

\* the process: the module global _calculator, the _model field of every
\* MetricsCalculator created so far (TRUE once assigned), and for each thread
\* its position and the calculator it is using
InitEmbed ==
    /\ runner = NoObject
    /\ evaluator = NoObject
    /\ files = NoFiles
    /\ gen_log = <<>>
    /\ hashes = <<>>
    /\ rng = Unseeded
    /\ judge_log = <<>>
    /\ observed = <<>>
    /\ call = [fn |-> "semantic_similarity",
               calculator |-> NoCalculator,
               models |-> <<>>,
               threads |-> [t \in Threads |->
                               [pc |-> "idle", calc |-> NoCalculator]]]
    /\ ret = NotReturned

EmbedUnchanged ==
    UNCHANGED <<runner, files, gen_log, evaluator, hashes, rng, judge_log,
        ret>>

\* EvaluationRunner.__init__, line 55: self.metrics_calc = MetricsCalculator()
RunnerCreatesCalculator(t) ==
    /\ call.threads[t].pc = "idle"
    /\ Len(call.models) < MaxCalculators
    /\ call' = [call EXCEPT !.models = Append(@, FALSE),
                            !.threads[t] = [pc |-> "ready",
                                            calc |-> Len(call.models) + 1]]
    /\ observed' = observed
    /\ EmbedUnchanged

\* get_calculator, line 118: if _calculator is None
GetCalculatorTest(t) ==
    /\ call.threads[t].pc = "idle"
    /\ call' = [call EXCEPT !.threads[t] =
                    IF call.calculator = NoCalculator
                    THEN [pc |-> "create", calc |-> NoCalculator]
                    ELSE [pc |-> "ready", calc |-> call.calculator]]
    /\ observed' = observed
    /\ EmbedUnchanged

\* get_calculator, line 119: _calculator = MetricsCalculator()
GetCalculatorCreate(t) ==
    /\ call.threads[t].pc = "create"
    /\ Len(call.models) < MaxCalculators
    /\ call' = [call EXCEPT !.models = Append(@, FALSE),
                            !.calculator = Len(call.models) + 1,
                            !.threads[t] = [pc |-> "ready",
                                            calc |-> Len(call.models) + 1]]
    /\ observed' = observed
    /\ EmbedUnchanged

\* MetricsCalculator.model, line 22: if self._model is None
ModelTest(t) ==
    /\ call.threads[t].pc = "ready"
    /\ call' = [call EXCEPT !.threads[t].pc =
                    IF call.models[call.threads[t].calc] THEN "encode"
                    ELSE "load"]
    /\ observed' = observed
    /\ EmbedUnchanged

\* MetricsCalculator.model, line 24: the model is loaded and assigned
ModelLoad(t) ==
    /\ call.threads[t].pc = "load"
    /\ observed' = Append(observed,
                          [fn |-> "SentenceTransformer", thread |-> t,
                           calculator |-> call.threads[t].calc])
    /\ call' = [call EXCEPT !.models[call.threads[t].calc] = TRUE,
                            !.threads[t].pc = "encode"]
    /\ EmbedUnchanged

\* semantic_similarity, lines 39-41: the texts are encoded; the thread then
\* scores the next pair with the same calculator or ends its run
Encode(t) ==
    /\ call.threads[t].pc = "encode"
    /\ \E next \in {"ready", "idle"} :
          call' = [call EXCEPT !.threads[t] =
                      [pc |-> next,
                       calc |-> IF next = "idle" THEN NoCalculator
                                ELSE call.threads[t].calc]]
    /\ observed' = observed
    /\ EmbedUnchanged

NextEmbed ==
    \E t \in Threads :
        \/ RunnerCreatesCalculator(t)
        \/ GetCalculatorTest(t)
        \/ GetCalculatorCreate(t)
        \/ ModelTest(t)
        \/ ModelLoad(t)
        \/ Encode(t)

SpecEmbed == InitEmbed /\ [][NextEmbed]_vars

ModelLoads == SelectSeq(observed, LAMBDA e : e.fn = "SentenceTransformer")

\* C23: the embedding model is loaded at most once in a process, whatever the
\* sequence of runs and the interleaving of concurrent first uses
C23_ModelLoadedOnce == Len(ModelLoads) <= 1

\* one thread after the other: two runners, each with its own calculator,
\* each loading the model
C23_SecondRunnerLoadsAgain ==
    /\ Len(ModelLoads) = 2
    /\ ModelLoads[1].thread = ModelLoads[2].thread
    /\ ModelLoads[1].calculator # ModelLoads[2].calculator

\* two threads that both found _model unset on the shared calculator
C23_ConcurrentFirstUseLoadsTwice ==
    /\ Len(ModelLoads) = 2
    /\ ModelLoads[1].thread # ModelLoads[2].thread
    /\ ModelLoads[1].calculator = ModelLoads[2].calculator

-----------------------------------------------------------------------------
(* the result of one prompt run                                            *)

\* records 1..n are the first n test cases of the dataset, each with all its
\* scores
RecordsFollowDataset(test_cases) ==
    /\ Len(test_cases) <= Len(Dataset)
    /\ \A i \in 1..Len(test_cases) :
          /\ test_cases[i].question = Dataset[i].question
          /\ test_cases[i].reference_answer = Dataset[i].reference_answer
          /\ DOMAIN test_cases[i].scores = ScoreNames

ScoresIn(test_cases) == [i \in 1..Len(test_cases) |-> test_cases[i].scores]

\* a completed prompt run: one record per test case, aggregated over all
ResultComplete(result) ==
    /\ RecordsFollowDataset(result.test_cases)
    /\ Len(result.test_cases) = Len(Dataset)
    /\ result.aggregate_scores = aggregate_scores(ScoresIn(result.test_cases))

ResultsWellFormed ==
    /\ call.pc \in {"cases", "load", "save", "dump", "done", "raised"} =>
          RecordsFollowDataset(call.test_cases)
    /\ \A k \in 1..Len(call.all_results) : ResultComplete(call.all_results[k])

\* while a prompt runs its records are only appended, one at a time; the
\* aggregation takes the list as it is after the last test case; a result
\* that was aggregated is never changed
RecordsOnlyAppended ==
    /\ call.pc = "cases" /\ call'.pc = "cases" =>
          /\ Len(call'.test_cases) \in
                {Len(call.test_cases), Len(call.test_cases) + 1}
          /\ SubSeq(call'.test_cases, 1,
              Len(call.test_cases)) = call.test_cases
    /\ Len(call'.all_results) # Len(call.all_results) =>
          /\ call.pc = "cases"
          /\ Len(call.test_cases) = Len(Dataset)
          /\ Len(call'.all_results) = Len(call.all_results) + 1
          /\ call'.all_results[Len(call'.all_results)].test_cases =
                call.test_cases
    /\ SubSeq(call'.all_results, 1, Len(call.all_results)) = call.all_results

\* C24: the result of a completed prompt run has exactly one record per test
\* case of the dataset, in dataset order, every record with all six scores;
\* during the run records are only appended, and aggregate_scores is computed
\* once the last record is there, over all of them
C24_ResultRecordLifecycle ==
    []ResultsWellFormed /\ [][RecordsOnlyAppended]_vars

\* a finished run over the two test cases of the dataset whose first record
\* was scored by the mock judge
C24_Witness ==
    /\ call.pc = "done"
    /\ Len(call.all_results) >= 1
    /\ Len(call.all_results[1].test_cases) = 2
    /\ call.all_results[1].test_cases[1].question = Dataset[1].question
    /\ call.all_results[1].test_cases[2].question = Dataset[2].question
    /\ call.all_results[1].test_cases[1].question
          # call.all_results[1].test_cases[2].question
    /\ gen_log = <<>>

-----------------------------------------------------------------------------
(* _mock_evaluate called for two pairs by two threads of one process       *)

PairThreads == {1, 2}

\* hash values whose seeds make random() return its lowest, or its highest,
\* value three times
PairHashValues == {0, Power(JitterSteps + 1, 3) - 1}

InitPairs ==
    /\ evaluator = LLMEvaluatorInit(None, None, TRUE)
    /\ hashes \in [{o \o SampleReference : o \in SampleOutputs} -> PairHashValues]
    /\ rng = Unseeded
    /\ judge_log = <<>>
    /\ runner = NoObject
    /\ files = NoFiles
    /\ gen_log = <<>>
    /\ observed = <<>>
    /\ \E o1 \in SampleOutputs, o2 \in SampleOutputs :
          call = [fn |-> "_mock_evaluate",
                  reference |-> SampleReference,
                  question |-> SampleQuestion,
                  threads |-> [t \in PairThreads |->
                      [pc |-> "seed",
                       output |-> IF t = 1 THEN o1 ELSE o2,
                       draws |-> <<>>]]]
    /\ ret = NotReturned

\* the level random() returns for the state g of the generator
Level(g) == (g.seed \div Power(JitterSteps + 1, g.pos)) % (JitterSteps + 1)

\* a generator that returns the levels a call has drawn, in their order
Replay(draws) ==
    [seed |-> draws[1] + draws[2] * (JitterSteps + 1)
                  + draws[3] * Power(JitterSteps + 1, 2),
     pos |-> 0]

\* _mock_evaluate, line 140: random.seed(hash(output + reference) % 10000)
\* sets the generator of the random module, which all threads share
SeedShared(t) ==
    /\ call.fn = "_mock_evaluate"
    /\ call.threads[t].pc = "seed"
    /\ rng' = MockSeeded(rng,
        hashes[call.threads[t].output \o call.reference])
    /\ call' = [call EXCEPT !.threads[t].pc = "draw"]
    /\ UNCHANGED <<runner, files, gen_log, evaluator, hashes, judge_log,
                   observed, ret>>

\* _mock_evaluate, lines 177-179: one random.uniform call draws from the
\* shared generator; after the third the scores are returned
DrawShared(t) ==
    /\ call.fn = "_mock_evaluate"
    /\ call.threads[t].pc = "draw"
    /\ LET draws == Append(call.threads[t].draws, Level(rng))
       IN  /\ rng' = Advance(rng, 1)
           /\ call' = [call EXCEPT !.threads[t].draws = draws,
                                   !.threads[t].pc =
                                       IF Len(draws) = 3 THEN "done" ELSE "draw"]
           /\ observed' =
                 IF Len(draws) = 3
                 THEN Append(observed,
                          MockCall(call.threads[t].output, call.reference,
                                   call.question,
                                   MockScores(call.threads[t].output,
                                              call.reference, call.question,
                                              Replay(draws))))
                 ELSE observed
    /\ UNCHANGED <<runner, files, gen_log, evaluator, hashes, judge_log, ret>>

NextPairs == \E t \in PairThreads : SeedShared(t) \/ DrawShared(t)

SpecPairs == InitPairs /\ [][NextPairs]_vars

\* the scores of a pair scored on its own
SequentialScores(output) ==
    MockScores(output, call.reference, call.question,
               MockSeeded(Unseeded, hashes[output \o call.reference]))

\* C25: scoring a pair changes no state another pair reads, so every pair
\* scored concurrently with another, in any interleaving, gets the scores of
\* the sequential run
C25_PairsIndependent ==
    \A k \in 1..Len(observed) :
        observed[k].scores = SequentialScores(observed[k].output)

\* both pairs scored one after the other: each has its sequential scores
C25_SequentialRun ==
    /\ Len(observed) = 2
    /\ call.threads[1].output # call.threads[2].output
    /\ C25_PairsIndependent

\* a pair that drew from the generator after the other thread had seeded it
C25_InterleavedScoresDiffer ==
    /\ Len(observed) = 2
    /\ \E k \in 1..2 :
          RLt(observed[k].scores.accuracy,
              SequentialScores(observed[k].output).accuracy)

-----------------------------------------------------------------------------
(* aggregate_scores in floating-point arithmetic                           *)
(* np.mean adds the values and divides by their number in binary floating  *)
(* point, rounding each result to the nearest float (ties to even). The    *)
(* significand has FloatBits bits here, where a Python float has 53.       *)

FloatBits == 3     \* bits of the significand of a float

Pow2(e) == IF e >= 0 THEN Rat(Power(2, e), 1) ELSE Rat(1, Power(2, -e))

\* the exponent e of a positive number: 2^e <= a < 2^(e+1)
Exponent(a) ==
    CHOOSE e \in (-(FloatBits + 5))..(FloatBits + 5) :
        RLe(Pow2(e), a) /\ RLt(a, Pow2(e + 1))

\* the float nearest to x, ties to the even significand
RoundFloat(x) ==
    IF x.num = 0 THEN Zero
    ELSE LET a == Rat(Abs(x.num), x.den)
             quantum == Pow2(Exponent(a) - FloatBits + 1)
             m == RDiv(a, quantum)
             lo == m.num \div m.den
             rest == RSub(m, Rat(lo, 1))
             k == IF RLt(Half, rest) \/ (rest = Half /\ lo % 2 = 1)
                  THEN lo + 1 ELSE lo
         IN  RMul(Rat(IF x.num < 0 THEN -k ELSE k, 1), quantum)

\* np.add.reduce of a short list: the values are added one by one
RECURSIVE FloatSum(_, _)
FloatSum(values, acc) ==
    IF values = <<>> THEN acc
    ELSE FloatSum(Tail(values), RoundFloat(RAdd(acc, Head(values))))

\* a slip: the sum is not divided by the number of values
np_mean_undivided(values) == FloatSum(values, Zero)

\* np.mean(values): metrics.py line 104
np_mean(values) ==
    RoundFloat(RDivInt(FloatSum(values, Zero), Len(values)))

\* aggregate_scores, lines 94-109, with the mean computed in floats; np.min
\* and np.max return one of the values and round nothing
aggregate_scores_np(scores_) ==
    IF scores_ = <<>> THEN <<>>
    ELSE LET metric_keys == MetricKeys(scores_)
             out == {<<key, stat>> : key \in metric_keys, stat \in Stats}
         IN  [o \in {p[1] \o p[2] : p \in out} |->
                LET p == CHOOSE q \in out : q[1] \o q[2] = o
                    values == ValuesOf(scores_, p[1])
                IN  IF p[2] = "_mean" THEN np_mean(values)
                    ELSE StatOf(p[2], values)]

\* scores that are floats: k / 8 for some k
FloatScores == {Rat(3, 8), Half, Rat(3, 4), One}

FloatScoreVectors == UNION {[S -> FloatScores] : S \in SUBSET {"accuracy"}}

InitFloat ==
    \E s \in SeqsUpTo(FloatScoreVectors, MaxCases) :
        Invoke([fn |-> "aggregate_scores_np", scores |-> s])

AggregateScoresNp ==
    /\ call.fn = "aggregate_scores_np"
    /\ ret = NotReturned
    /\ Return(aggregate_scores_np(call.scores))

NextFloat == AggregateScoresNp

SpecFloat == InitFloat /\ [][NextFloat]_vars

\* the minimum and the maximum of a metric are values contributed by vectors
\* (0.0 by a vector that lacks the metric), the least and the greatest
ExtremesContributed(scores_, agg, m) ==
    LET n == Len(scores_)
    IN  /\ \E i \in 1..n : agg[m \o "_min"] = Contribution(scores_, i, m)
        /\ \E i \in 1..n : agg[m \o "_max"] = Contribution(scores_, i, m)
        /\ \A i \in 1..n :
              /\ RLe(agg[m \o "_min"], Contribution(scores_, i, m))
              /\ RLe(Contribution(scores_, i, m), agg[m \o "_max"])

\* the unit roundoff, and the factor by which n roundings can raise a value
UnitRoundoff == Pow2(-FloatBits)

RECURSIVE RPower(_, _)
RPower(x, n) == IF n = 0 THEN One ELSE RMul(x, RPower(x, n - 1))

\* C26 as stated: for every metric of a non-empty list of score vectors the
\* mean lies between the minimum and the maximum, which are contributed
\* values
C26_MeanWithinExtremes_AsStated ==
    (call.fn = "aggregate_scores_np" /\ ret.kind = "return"
        /\ call.scores # <<>>) =>
        \A m \in MetricKeys(call.scores) :
            /\ ExtremesContributed(call.scores, ret.value, m)
            /\ RLe(ret.value[m \o "_min"], ret.value[m \o "_mean"])
            /\ RLe(ret.value[m \o "_mean"], ret.value[m \o "_max"])

\* C26: for every metric of a non-empty list of n vectors of non-negative
\* scores the minimum and the maximum are contributed values, and the mean
\* lies between them up to the rounding of the n float operations that
\* compute it: min * (1 - u)^n <= mean <= max * (1 + u)^n, u the unit roundoff
C26_MeanWithinExtremes ==
    (call.fn = "aggregate_scores_np" /\ ret.kind = "return"
        /\ call.scores # <<>>) =>
        \A m \in MetricKeys(call.scores) :
            LET n == Len(call.scores)
            IN  /\ ExtremesContributed(call.scores, ret.value, m)
                /\ RLe(RMul(ret.value[m \o "_min"],
                            RPower(RSub(One, UnitRoundoff), n)),
                       ret.value[m \o "_mean"])
                /\ RLe(ret.value[m \o "_mean"],
                       RMul(ret.value[m \o "_max"],
                            RPower(RAdd(One, UnitRoundoff), n)))

\* three vectors with different scores, one lacking the metric, aggregated
C26_Witness ==
    /\ call.fn = "aggregate_scores_np"
    /\ ret.kind = "return"
    /\ Len(call.scores) = 3
    /\ "accuracy" \notin DOMAIN call.scores[2]
    /\ "accuracy_min" \in DOMAIN ret.value
    /\ ret.value["accuracy_min"] = Zero
    /\ ret.value["accuracy_max"] = One
    /\ RLt(Zero, ret.value["accuracy_mean"])
    /\ RLt(ret.value["accuracy_mean"], One)

\* three equal scores whose rounded mean lies below all of them
C26_MeanBelowMinimum ==
    /\ call.fn = "aggregate_scores_np"
    /\ ret.kind = "return"
    /\ "accuracy_min" \in DOMAIN ret.value
    /\ ret.value["accuracy_min"] = Rat(3, 4)
    /\ ret.value["accuracy_max"] = Rat(3, 4)
    /\ RLt(ret.value["accuracy_mean"], ret.value["accuracy_min"])

-----------------------------------------------------------------------------
(* the clamps of the Mock Judge                                            *)

\* keyword_score of a call: evaluator.py lines 146-156
KeywordScoreOf(e) ==
    LET ref_words == Range(Split(Lower(e.reference)))
        out_words == Range(Split(Lower(e.output)))
    IN  IF ref_words = {} THEN Rat(4, 10)
        ELSE RAdd(Rat(4, 10),
                  RMul(Rat(Cardinality(ref_words \cap out_words),
                           Cardinality(ref_words)), Half))

\* base_accuracy of a call before max(0.4, min(0.95, .)): lines 143-173
UnclampedBaseOf(e) ==
    LET longer == Max2(Max2(Len(e.output), Len(e.reference)), 1)
        length_score ==
            RAdd(Half, RMul(Rat(Min2(Len(e.output), Len(e.reference)),
                longer),
                            Rat(3, 10)))
        length_penalty ==
            IF Len(e.output) < 5 THEN Rat(3, 10)
            ELSE IF Len(e.output) > 3 * Len(e.reference) THEN Rat(1, 10)
            ELSE Zero
    IN  RSub(RDivInt(RAdd(length_score, KeywordScoreOf(e)), 2),
        length_penalty)

\* the generator as the call seeded it
SeededFor(e) == MockSeeded(Unseeded, hashes[e.output \o e.reference])

C27_FaithfulnessClamped ==
    \E e \in MockJudgeCalls :
        /\ e.scores.faithfulness = Rat(3, 10)
        /\ RLt(RSub(RAdd(RMax(Rat(4, 10), UnclampedBaseOf(e)),
                         Uniform(SeededFor(e), 1, Rat(-8, 100), Rat(8, 100))),
                    Rat(5, 100)),
               Rat(3, 10))
        /\ e.scores.accuracy = Rat(35, 100)

-----------------------------------------------------------------------------
(* several lines for one key in a judge response                           *)

\* C28: when a response holds several lines for one key, _parse_scores
\* returns for that key the number of the last of them that parses; a later
\* line for the key whose value does not parse does not put 0.5 back, and
\* the scores are what they would be without that line, for every field
C28_LastParsableLineWins ==
    (call.fn = "_parse_scores" /\ ret # NotReturned /\ ret.kind = "return") =>
        LET text == call.response_text
            lines == SplitOn(Strip(text), "\n")
        IN  \A f \in DOMAIN KeyPrefix :
               LET giving == LinesGiving(text, f)
               IN  giving # {} =>
                      /\ ret.value[f] = NumberOn(text, f, Last(giving))
                      /\ \A j \in LinesFor(text, f) \ giving :
                            /\ j > Last(giving) => ret.value[f] # Half
                                                   \/ NumberOn(text, f,
                                                       Last(giving)) = Half
                            /\ \A g \in DOMAIN KeyPrefix :
                                  ret.value[g] =
                                      ParseLines(DefaultScores, Without(lines,
                                          j))[g]

\* accuracy given as 0.95, then as 1.5, then as a word: the second number is
\* returned and the other fields keep their defaults
C28_Witness ==
    /\ call.fn = "_parse_scores"
    /\ call.response_text = JoinLines(<<LineAccuracy, LineShouted, LineWord>>)
    /\ ret = Returned([accuracy |-> Rat(3, 2), faithfulness |-> Half,
                       completeness |-> Half])

\* a number for faithfulness, an unparsable faithfulness line after it and an
\* accuracy line: both numbers are returned
C28_OtherFieldsKept ==
    /\ call.fn = "_parse_scores"
    /\ call.response_text = JoinLines(<<LineFaithfulness, LineNoValue,
        LineAccuracy>>)
    /\ ret = Returned([accuracy |-> Rat(95, 100), faithfulness |-> Rat(90,
        100),
                       completeness |-> Half])

-----------------------------------------------------------------------------
(* run_evaluation with an empty prompt list and with None                  *)

EmptyListRun == call.fn = "run_evaluation" /\ call.prompt_names = PromptList(<<>>)

DefaultRun == call.fn = "run_evaluation" /\ call.prompt_names = NoPromptNames

\* with an empty list nothing is loaded, generated or scored and nothing is
\* raised; the finished run has left an empty array in the store
EmptyListEvaluatesNothing ==
    EmptyListRun =>
        /\ call.pc \in {"start", "save", "dump", "done"}
        /\ call.all_results = <<>>
        /\ gen_log = <<>>
        /\ judge_log = <<>>
        /\ Evaluations = <<>>
        /\ call.pc \in {"dump", "done"} => files.store.items = <<>>
        /\ call.pc = "done" =>
              /\ files.store = StoreFile(<<>>, TRUE)
              /\ ret = Returned(None)

\* with an empty list the run goes from its start straight to the write, and
\* the write empties whatever the store held
EmptyListOverwrites ==
    EmptyListRun =>
        /\ call.pc = "start" => call'.pc = "save" /\ files' = files
        /\ call.pc = "save" => files'.store = StoreFile(<<>>, FALSE)

\* with None the names are those of the prompt files present, each once, and
\* a finished run has stored one record for each of them
DefaultEvaluatesEveryFile ==
    (DefaultRun /\ call.pc # "start") =>
        /\ Range(call.names) = DOMAIN files.prompts
        /\ Len(call.names) = Cardinality(DOMAIN files.prompts)
        /\ call.pc = "done" =>
              /\ {r.prompt_name : r \in Range(files.store.items)} =
                     DOMAIN files.prompts
              /\ Len(files.store.items) = Cardinality(DOMAIN files.prompts)
              /\ \A k \in 1..Len(files.store.items) :
                    Len(files.store.items[k].test_cases) = Len(Dataset)

\* C29: run_evaluation called with an empty prompt list evaluates nothing and
\* still replaces the result store by an empty array, whatever an earlier run
\* left there; called with None it evaluates every prompt file of the prompts
\* directory
C29_EmptyListOverwritesNoneRunsAll ==
    /\ []EmptyListEvaluatesNothing
    /\ [][EmptyListOverwrites]_vars
    /\ []DefaultEvaluatesEveryFile

\* a finished run over an empty list with every input file present: the store
\* holds an empty array
C29_Witness ==
    /\ EmptyListRun
    /\ call.pc = "done"
    /\ DOMAIN files.prompts = DOMAIN PromptFiles
    /\ ~DatasetFileMissing
    /\ observed = <<[fn |-> "open", mode |-> "w"]>>
    /\ files.store = StoreFile(<<>>, TRUE)

\* a run over an empty list about to open the store an earlier run filled
C29_StoreAboutToBeEmptied ==
    /\ EmptyListRun
    /\ call.pc = "save"
    /\ files.store = StoreFile(<<EarlierResult>>, TRUE)

\* a finished run with None: both prompt files evaluated and stored
C29_DefaultRunStored ==
    /\ DefaultRun
    /\ call.pc = "done"
    /\ Len(files.store.items) = 2
    /\ files.store.closed

\* under the HTTP entry point run_evaluation is never reached with an empty
\* list
C29_HttpNeverPassesEmptyList == ~EmptyListRun

\* under the HTTP entry point a run over a chosen prompt has finished
C29_HttpRunFinished ==
    /\ call.fn = "run_evaluation"
    /\ call.pc = "done"
    /\ call.prompt_names # NoPromptNames

=============================================================================
